---- MODULE Spec2Model ----
(***************************************************************************)
(* The agent loop of freshagent (Agent.run) as a state machine.            *)
(*                                                                         *)
(* Texts are sequences of tokens: a token is a piece of text that the      *)
(* code looks for ("Final Answer:", "EVIDENCE ..."), a blank, or a piece   *)
(* of free text.  `x in text` is membership of the token, str.strip()      *)
(* removes blank tokens at both ends, concatenation is \o.                 *)
(***************************************************************************)
EXTENDS Integers, Sequences, FiniteSets, TLC

VARIABLES
    max_steps,   \* self.cfg.max_steps
    query,       \* the question given to run
    messages,    \* the transcript (list of message dicts)
    step,        \* the loop variable of `for step in range(1, max_steps + 1)`
    pc,          \* position in run: "loop", "llm", "tool", "done", "raised"
    result,      \* the value run returned (meaningful when pc = "done")
    exc,         \* the exception that left run (when pc = "raised")
    calls,       \* log: one record per call_llm_messages call
    dispatches,  \* log: one record per tool.func(args) call
    attempt,     \* call_llm_messages: failed attempts of the call in progress
    sleeps,      \* call_llm_messages: the time.sleep(s) calls of that call
    last_error,  \* call_llm_messages: class of the last exception of a request
    df,          \* run_agent.main: the table, one row per question
    row_i,       \* run_agent.main: the row `for i, q in ...` is at
    processed,   \* run_agent.main: rows answered or completed so far
    writes,      \* run_agent.main: the files written (df.to_csv)
    bpc,         \* position in main: "idle", "loop", "saved", "aborted"
    run_calls,   \* log: one record per agent.run_parts call of main
    parts,       \* Agent.run_parts: the dict it returned
    given_text,  \* extract_direct_answer: its argument final_text
    extracted,   \* extract_direct_answer: the string it returned
    expression,  \* _calc_impl: the expression of its argument, parsed
    calc_result, \* _calc_impl: the payload it returned
    sdata,       \* freshprompt_format: its arguments
    rendered,    \* freshprompt_format: the evidence block it rendered
    openai_client, \* llm_api: the module-level client, shared by all runs
    tool_registry, \* tools: the module-level TOOL_REGISTRY, shared by all runs
    sessions,    \* concurrent runs: position, transcript and result of each
    api_args,    \* call_llm_api: its arguments and the API key of the environment
    api_pc,      \* call_llm_api: "idle", "enter", "request", "returned", "raised"
    response,    \* call_llm_api: the string it returned
    grader_text, \* parse_relaxed_label: its argument text
    label        \* parse_relaxed_label: the label it returned

\* The state of the backend call in progress, or of the one that ended the run.
backend == <<attempt, sleeps, last_error>>

\* The state of one Agent.run, and the state of the batch runner.
agent == <<max_steps, query, messages, step, pc, result, exc, calls, dispatches,
           attempt, sleeps, last_error>>
batch == <<df, row_i, processed, writes, bpc, run_calls>>

\* The state of the callers of run and of the functions called on their own.
extract_vars == <<given_text, extracted>>
calc_vars == <<expression, calc_result>>
format_vars == <<sdata, rendered>>
shared_vars == <<openai_client, tool_registry, sessions>>
api_vars == <<api_args, api_pc, response>>
label_vars == <<grader_text, label>>
units == <<parts, extract_vars, calc_vars, format_vars, shared_vars, api_vars,
          label_vars>>

vars == <<max_steps, query, messages, step, pc, result, exc, calls, dispatches,
          attempt, sleeps, last_error, df, row_i, processed, writes, bpc, run_calls,
          parts, given_text, extracted, expression, calc_result,
          sdata, rendered, openai_client, tool_registry, sessions,
          api_args, api_pc, response, grader_text, label>>

\* ------------------------------------------------------------------ bounds

MaxRounds == 3

\* ------------------------------------------------------------------ texts

WS == " "
NL == "\n"
Blanks == {WS, NL}
FINAL_MARK == "Final Answer:"
PREMISE_MARK == "Premise:"
VERDICT_MARK == "Verdict:"
ABSENT == "<absent>"
NoResult == <<"<no result>">>
NoExc == "none"

Range(s) == {s[i] : i \in DOMAIN s}

RECURSIVE LStrip(_)
LStrip(s) == IF s # <<>> /\ Head(s) \in Blanks THEN LStrip(Tail(s)) ELSE s

RECURSIVE RStrip(_)
RStrip(s) ==
    IF s # <<>> /\ s[Len(s)] \in Blanks THEN RStrip(SubSeq(s, 1, Len(s) - 1)) ELSE s

\* str.strip()
Strip(s) == RStrip(LStrip(s))

IsPrefix(s, t) == Len(s) <= Len(t) /\ SubSeq(t, 1, Len(s)) = s

\* ------------------------------------------------------------ transcript

Msg(role, content, tcs, tcid) ==
    [role |-> role, content |-> content, tool_calls |-> tcs, tool_call_id |-> tcid]

SystemMsg(content) == Msg("system", content, <<>>, ABSENT)
UserMsg(content) == Msg("user", content, <<>>, ABSENT)
ToolMsg(tcid, content) == Msg("tool", content, <<>>, tcid)

RUBRIC == <<"REACT_SYSTEM_PROMPT", "today">>
REFLECT_AFTER_TOOL == <<"You have just received tool evidence.", "NOW DO NOT CALL ANY TOOL YET.">>
NO_MESSAGE_ERROR == <<"[ERROR] LLM did not return a message.">>
STOPPED == <<"[Stopped: max steps reached]">>

build_react_messages(user_query) == <<SystemMsg(RUBRIC), UserMsg(user_query)>>

\* The message the backend returns becomes a plain dict: content (None -> ""),
\* and every tool call of the message, in order.
ToolCall(id, name, arguments) ==
    [id |-> id, type |-> "function", function |-> [name |-> name, arguments |-> arguments]]

ConvToolCalls(tcs) == [i \in DOMAIN tcs |-> ToolCall(tcs[i].id, tcs[i].name, tcs[i].arguments)]

assistant_message_to_dict(m) ==
    Msg("assistant", m.content, ConvToolCalls(m.tool_calls), ABSENT)

RECURSIVE LastAssistantFrom(_, _)
LastAssistantFrom(msgs, i) ==
    IF i = 0 THEN <<>>
    ELSE IF msgs[i].role = "assistant" THEN Strip(msgs[i].content)
    ELSE LastAssistantFrom(msgs, i - 1)

extract_latest_reflection(msgs) == LastAssistantFrom(msgs, Len(msgs))

build_context_snapshot(user_query, reflection_text) ==
    LET rt == Strip(reflection_text) IN
    IF rt = <<>>
    THEN <<"SNAPSHOT: Focus on answering the user's question.", "Question:">> \o user_query
    ELSE <<"SNAPSHOT: You must stay focused on the user's question.", "Question:">>
         \o user_query
         \o <<"Recent reflection summary (for focus, not for quoting):">>
         \o rt
         \o <<"Use exactly ONE tool in the next step if needed; do not drift.">>

\* Tokens whose text has "EVIDENCE" in it.
EvidenceTokens == {"EVIDENCE BLOCK (from", "EVIDENCE (raw, from", "EVIDENCE"}

HasEvidenceText(content) == Range(content) \cap EvidenceTokens # {}

RECURSIVE JoinEvidence(_)
JoinEvidence(evs) ==
    IF evs = <<>> THEN <<>>
    ELSE IF Len(evs) = 1 THEN evs[1]
    ELSE evs[1] \o <<"---">> \o JoinEvidence(Tail(evs))

EvidenceContents(msgs) ==
    LET sel == SelectSeq(msgs, LAMBDA m : m.role = "system" /\ HasEvidenceText(m.content))
    IN  [i \in DOMAIN sel |-> sel[i].content]

final_context_from_prompt(user_query, msgs) ==
    LET evidences == EvidenceContents(msgs)
        evidence_text == IF evidences # <<>> THEN JoinEvidence(evidences)
                         ELSE <<"[no evidence gathered]">>
    IN  <<"FINAL SYNTHESIS CONTEXT", "User Question:">> \o Strip(user_query)
        \o <<"Evidence You Collected:">> \o evidence_text
        \o <<"Now produce your final answer following the Answer Contract:">>

\* ----------------------------------------------------------------- tools

TOOL_REGISTRY == {"google", "calculator"}

\* tools_to_openai_format(TOOL_REGISTRY): one entry per registered tool.
tools_to_openai_format(registry) == registry

NoTools == {}

CFG_PROVIDER == "serper"

\* Argument strings a model can put in a tool call, and what json.loads makes
\* of them.  A decoded JSON object is a record of its keys (ABSENT: no such
\* key); any other decoded value keeps only its kind.
ARGS_Q == "{question: q}"
ARGS_Q_PROVIDER == "{question: q, provider: serpapi}"
ARGS_EXPR == "{expression: 2+2}"
ARGS_EMPTY_OBJ == "{}"
ARGS_LIST == "[1]"
ARGS_NULL == "null"
ARGS_BAD == "{question: "
ARGS_NONE == ""

Obj(q, p, e) == [kind |-> "object", question |-> q, provider |-> p, expression |-> e]
NonObj(k) == [kind |-> k, question |-> ABSENT, provider |-> ABSENT, expression |-> ABSENT]
JsonError == [kind |-> "JSONDecodeError", question |-> ABSENT, provider |-> ABSENT, expression |-> ABSENT]

json_loads(s) ==
    CASE s = ARGS_Q -> Obj("q", ABSENT, ABSENT)
      [] s = ARGS_Q_PROVIDER -> Obj("q", "serpapi", ABSENT)
      [] s = ARGS_EXPR -> Obj(ABSENT, ABSENT, "2+2")
      [] s = ARGS_EMPTY_OBJ -> Obj(ABSENT, ABSENT, ABSENT)
      [] s = ARGS_LIST -> NonObj("list")
      [] s = ARGS_NULL -> NonObj("null")
      [] OTHER -> JsonError

\* args_str = fn.get("arguments") or "{}"; json.loads, {} when it raises.
ParseArgs(arguments) ==
    LET args_str == IF arguments = "" THEN ARGS_EMPTY_OBJ ELSE arguments
        v == json_loads(args_str)
    IN  IF v.kind = "JSONDecodeError" THEN Obj(ABSENT, ABSENT, ABSENT) ELSE v

\* `if fn_name == "google" and "provider" not in args: args["provider"] = ...`
\* raises TypeError unless args is a dict (None is not iterable; a list takes
\* no string index).
ProviderFillRaises(fn_name, args) == fn_name = "google" /\ args.kind # "object"

\* Variant of FillProvider that sets the configured provider on every
\* search request.
FillProviderAlways(fn_name, args, cfg_provider) ==
    IF fn_name = "google" /\ args.kind = "object"
    THEN [args EXCEPT !.provider = cfg_provider]
    ELSE args

FillProvider(fn_name, args, cfg_provider) ==
    IF fn_name = "google" /\ args.kind = "object" /\ args.provider = ABSENT
    THEN [args EXCEPT !.provider = cfg_provider]
    ELSE args

\* The json_schema of each registered tool: its required keys.  The run loop
\* never reads it; it is only sent to the backend as the tool description.
json_schema_required(fn_name) ==
    IF fn_name = "google" THEN {"question"} ELSE {"expression"}

HasKey(args, key) ==
    CASE key = "question" -> args.question # ABSENT
      [] key = "provider" -> args.provider # ABSENT
      [] OTHER -> args.expression # ABSENT

SchemaValid(fn_name, args) ==
    /\ args.kind = "object"
    /\ \A key \in json_schema_required(fn_name) : HasKey(args, key)
    /\ fn_name = "google" /\ args.provider # ABSENT => args.provider \in {"serper", "serpapi"}

\* What a tool function can do with the arguments it is given.  A payload is
\* a record of the dict's keys (ABSENT / <<>>: no such key).
Payload(ok, q, prompt, res, err) ==
    [ok |-> ok, question |-> q, prompt |-> prompt, result |-> res, error |-> err]

UNSERIALIZABLE == "<complex>"

\* Both functions start with args.get(...): AttributeError unless args is a dict.
ToolRaises(fn_name, args) == args.kind # "object"

\* What the search can do: return results, report a failure as
\* {ok: False, error} (no API key, HTTP error), or raise (SerpAPI missing).
SearchOutcomes == {"results", "failed", "exception"}
EvalOutcomes == {"value", "unserializable", "exception"}

ToolOutcomes(fn_name) == IF fn_name = "google" THEN SearchOutcomes ELSE EvalOutcomes

SearchData(ok, organic_results, error) ==
    [ok |-> ok, organic_results |-> organic_results, error |-> error]

SEARCH_ERROR == "SERPER_API_KEY not found in environment"

call_search_engine(query_text, outcome) ==
    IF outcome = "results"
    THEN SearchData(TRUE, <<"evidence">>, ABSENT)
    ELSE SearchData(FALSE, <<>>, SEARCH_ERROR)

\* The evidence rows come from the result keys of search_data; its "ok" and
\* "error" keys are not read.
freshprompt_format(question, search_data) ==
    <<"query:", question>> \o search_data.organic_results \o <<"question:", question>>

formatted_google_search(question, outcome) ==
    freshprompt_format(question, call_search_engine(question, outcome))

google_impl(args, outcome) ==
    LET q == IF args.question = ABSENT THEN "" ELSE args.question IN
    IF outcome = "exception"
    THEN Payload(FALSE, ABSENT, <<>>, ABSENT, "search failed")
    ELSE Payload(TRUE, q, formatted_google_search(q, outcome), ABSENT, ABSENT)

calc_impl(args, outcome) ==
    CASE outcome = "value" -> Payload(TRUE, ABSENT, <<>>, "4", ABSENT)
      [] outcome = "unserializable" -> Payload(TRUE, ABSENT, <<>>, UNSERIALIZABLE, ABSENT)
      [] OTHER -> Payload(FALSE, ABSENT, <<>>, ABSENT, "invalid syntax")

tool_func(fn_name, args, outcome) ==
    IF fn_name = "google" THEN google_impl(args, outcome) ELSE calc_impl(args, outcome)

\* json.dumps(result): TypeError on a value JSON cannot hold.
JsonDumpsRaises(payload) == payload.result = UNSERIALIZABLE

json_dumps(payload) ==
    <<"ok:", IF payload.ok THEN "true" ELSE "false">>
    \o (IF payload.question # ABSENT THEN <<"question:", payload.question>> ELSE <<>>)
    \o (IF payload.prompt # <<>> THEN <<"prompt:">> \o payload.prompt ELSE <<>>)
    \o (IF payload.result # ABSENT THEN <<"result:", payload.result>> ELSE <<>>)
    \o (IF payload.error # ABSENT THEN <<"error:", payload.error>> ELSE <<>>)

\* _inject_evidence: the evidence system turn of a payload.
EvidenceMsg(payload, source_name) ==
    IF payload.prompt # <<>>
    THEN SystemMsg(<<"EVIDENCE BLOCK (from", source_name>> \o payload.prompt
                   \o <<"Instructions: Base your next reasoning ONLY on the above evidence.">>)
    ELSE SystemMsg(<<"EVIDENCE (raw, from", source_name>> \o json_dumps(payload)
                   \o <<"Use ONLY the above evidence to continue;">>)

inject_evidence(msgs, payload, source_name) == Append(msgs, EvidenceMsg(payload, source_name))

UnknownToolMsg(fn_name) ==
    SystemMsg(<<"Requested tool", fn_name, "is not available. Available:", "calculator, google">>)

\* ------------------------------------------------------------- the inputs

Questions == {<<"who", "holds", "office">>}

\* A backend message: content and tool calls (id, name, argument string).
TC(id, name, arguments) == [id |-> id, name |-> name, arguments |-> arguments]

Reply(content, tcs) == [content |-> content, tool_calls |-> tcs]

Contents ==
    { <<>>,
      <<WS, "thinking">>,
      <<WS, FINAL_MARK, "answer", WS>>,
      <<PREMISE_MARK, "True", VERDICT_MARK, "Yes">> }

\* The tool-call lists tried with every content.
ToolCallLists ==
    { <<>>,
      <<TC("call_1", "google", ARGS_Q)>> }

\* Contents tried without a tool call, and calls tried with empty content.
MoreContents == { <<WS>>, <<PREMISE_MARK, "True">>, <<"EVIDENCE", "is", "thin">> }

MoreToolCallLists ==
    { <<TC("call_1", "google", ARGS_LIST)>>,
      <<TC("call_1", "calculator", ARGS_EXPR)>>,
      <<TC("call_1", "calculator", ARGS_NULL)>>,
      <<TC("call_1", "wikipedia", ARGS_LIST)>>,
      <<TC("call_1", "google", ARGS_Q), TC("call_2", "calculator", ARGS_EXPR)>>,
      <<TC("call_1", "google", ARGS_BAD)>>,
      <<TC("call_1", " google ", ARGS_Q_PROVIDER)>>,
      <<TC("call_1", "calculator", ARGS_NONE)>> }

Replies ==
    {Reply(c, t) : c \in Contents, t \in ToolCallLists}
        \cup {Reply(c, <<>>) : c \in MoreContents}
        \cup {Reply(<<>>, t) : t \in MoreToolCallLists}

\* ------------------------------------------------------------------- run

StepsLeft(st, mx) == mx - st + 1

steps_left == StepsLeft(step, max_steps)


\* Variant of WithSnapshot that appends a snapshot whatever the latest
\* assistant turn holds.
WithSnapshotEvenIfEmpty(msgs, user_query, st, sl) ==
    IF st > 1 /\ sl > 1
    THEN Append(msgs, SystemMsg(build_context_snapshot(user_query,
                                                       extract_latest_reflection(msgs))))
    ELSE msgs

\* Variant of WithSnapshot that keeps one snapshot: it overwrites the last turn.
WithSnapshotInPlace(msgs, user_query, st, sl) ==
    IF st > 1 /\ sl > 1
    THEN LET latest_reflection == extract_latest_reflection(msgs) IN
         IF latest_reflection # <<>>
         THEN [msgs EXCEPT ![Len(msgs)] =
                  SystemMsg(build_context_snapshot(user_query, latest_reflection))]
         ELSE msgs
    ELSE msgs

\* Lines 258-265: the focus snapshot of a round.
WithSnapshot(msgs, user_query, st, sl) ==
    IF st > 1 /\ sl > 1
    THEN LET latest_reflection == extract_latest_reflection(msgs) IN
         IF latest_reflection # <<>>
         THEN Append(msgs, SystemMsg(build_context_snapshot(user_query, latest_reflection)))
         ELSE msgs
    ELSE msgs


\* Variant of WithFinalContext that sends the final instruction as a user turn.
WithFinalContextAsUser(msgs, user_query, sl) ==
    IF sl = 1
    THEN Append(msgs, UserMsg(final_context_from_prompt(user_query, msgs)))
    ELSE msgs

\* Variant of WithFinalContext that also appends the turn in the round
\* before the last.
WithFinalContextTwoRounds(msgs, user_query, sl) ==
    IF sl <= 2
    THEN Append(msgs, SystemMsg(final_context_from_prompt(user_query, msgs)))
    ELSE msgs

\* Lines 269-271: the final-synthesis turn of the last round.
WithFinalContext(msgs, user_query, sl) ==
    IF sl = 1
    THEN Append(msgs, SystemMsg(final_context_from_prompt(user_query, msgs)))
    ELSE msgs


\* Variant of UseTools that advertises the registry on every round.
UseToolsEveryRound(sl) == tools_to_openai_format(TOOL_REGISTRY)

\* Line 268: use_tools = tools_spec if steps_left > 1 else None
UseTools(sl) == IF sl > 1 THEN tools_to_openai_format(TOOL_REGISTRY) ELSE NoTools

\* Line 276
MaxTokens(sl) == IF sl = 1 THEN "max_tokens_final" ELSE "max_tokens"

\* Line 295: content = (assistant_dict.get("content") or "").strip()
ContentOf(assistant_dict) == Strip(assistant_dict.content)


\* Variant of EarlyExit that knows only the Premise/Verdict rule.
EarlyExitContractOnly(content) ==
    PREMISE_MARK \in Range(content) /\ VERDICT_MARK \in Range(content)

\* Lines 299-301
EarlyExit(content) ==
    \/ FINAL_MARK \in Range(content)
    \/ PREMISE_MARK \in Range(content) /\ VERDICT_MARK \in Range(content)


\* Variant of TakesToolBranch without the steps_left test.
TakesToolBranchAnyRound(tool_calls, sl) == tool_calls # <<>>

\* Line 305
TakesToolBranch(tool_calls, sl) == tool_calls # <<>> /\ sl > 1

\* Line 306: the tool call the branch works on.
FirstToolCall(tool_calls) == tool_calls[1]

StripName(name) == IF name = " google " THEN "google" ELSE name


\* Variant of ToolTurns that answers the last tool call of the turn.
ToolTurnsLastId(msgs, tc, payload, fn_name) ==
    LET tcs == msgs[Len(msgs)].tool_calls IN
    Append(inject_evidence(Append(msgs, ToolMsg(tcs[Len(tcs)].id, json_dumps(payload))),
                           payload, fn_name),
           SystemMsg(REFLECT_AFTER_TOOL))

\* Lines 333-343: the three turns of a tool invocation.
ToolTurns(msgs, tc, payload, fn_name) ==
    Append(inject_evidence(Append(msgs, ToolMsg(tc.id, json_dumps(payload))),
                           payload, fn_name),
           SystemMsg(REFLECT_AFTER_TOOL))

\* Variant of ExhaustedResult that trims the content as the early exit does.
ExhaustedResultTrimmed(msgs) ==
    IF msgs # <<>> /\ msgs[Len(msgs)].role = "assistant"
    THEN Strip(msgs[Len(msgs)].content)
    ELSE STOPPED

\* Lines 352-354
ExhaustedResult(msgs) ==
    IF msgs # <<>> /\ msgs[Len(msgs)].role = "assistant"
    THEN msgs[Len(msgs)].content
    ELSE STOPPED

\* ------------------------------------------------------- the backend call

\* What a request to the backend can raise, by the except clause it meets
\* (lines 159-168), and the failure of the lazy client set-up (lines 119-135).
RequestErrors == {"RateLimitError", "APIError", "Exception"}
NO_API_KEY == "RuntimeError: OPENAI_API_KEY is not set"
NoError == "none"

\* Variant of Retried with a catch-all retry.
RetriedAlways(e) == TRUE

\* `except RateLimitError` and `except APIError` sleep and go on with the
\* loop; `except Exception as e: raise e` ends the call.
Retried(e) == e \in {"RateLimitError", "APIError"}

MAX_RETRIES_PLUS_ONE == 3 + 1

MAX_RETRIES == 3

\* The batch runner is not running: a single call of Agent.run is observed.
BatchIdle ==
    /\ df = <<>>
    /\ row_i = 0
    /\ processed = 0
    /\ writes = <<>>
    /\ bpc = "idle"
    /\ run_calls = <<>>

\* A function that was not called has returned nothing.
NotCalled == <<"<not called>">>

NoParts == [full |-> NotCalled, direct |-> NotCalled]

\* call_llm_api is not called.
ApiIdle ==
    /\ api_args = NotCalled
    /\ api_pc = "idle"
    /\ response = NotCalled

\* parse_relaxed_label is not called.
LabelIdle ==
    /\ grader_text = NotCalled
    /\ label = NotCalled

UnitsIdle ==
    /\ parts = NoParts
    /\ given_text = NotCalled
    /\ extracted = NotCalled
    /\ expression = NotCalled
    /\ calc_result = NotCalled
    /\ sdata = NotCalled
    /\ rendered = NotCalled
    /\ openai_client = NotCalled
    /\ tool_registry = NotCalled
    /\ sessions = NotCalled
    /\ ApiIdle
    /\ LabelIdle

\* ------------------------------------------------------------ the machine

Init ==
    /\ max_steps \in 0..MaxRounds
    /\ query \in Questions
    /\ messages = build_react_messages(query)
    /\ step = 1
    /\ pc = "loop"
    /\ result = NoResult
    /\ exc = NoExc
    /\ calls = <<>>
    /\ dispatches = <<>>
    /\ attempt = 0
    /\ sleeps = <<>>
    /\ last_error = NoError
    /\ BatchIdle
    /\ UnitsIdle

\* The head of a loop iteration, up to the model call.
RoundStart ==
    /\ pc = "loop"
    /\ step <= max_steps
    /\ messages' = WithFinalContext(WithSnapshot(messages, query, step, steps_left),
                                    query, steps_left)
    /\ pc' = "llm"
    /\ UNCHANGED <<max_steps, query, step, result, exc, calls, dispatches>>
    /\ UNCHANGED <<backend, batch, units>>

CallRecord ==
    [step |-> step, steps_left |-> steps_left, tools |-> UseTools(steps_left),
     max_tokens |-> MaxTokens(steps_left), last |-> messages[Len(messages)]]

\* One request failed with an error that is retried: sleep 1 + attempt
\* seconds, next iteration of `for attempt in range(MAX_RETRIES)`.
LLMTransient ==
    /\ pc = "llm"
    /\ attempt < MAX_RETRIES
    /\ \E e \in RequestErrors :
         /\ Retried(e)
         /\ last_error' = e
    /\ sleeps' = Append(sleeps, 1 + attempt)
    /\ attempt' = attempt + 1
    /\ UNCHANGED <<max_steps, query, messages, step, pc, result, exc, calls, dispatches>>
    /\ UNCHANGED <<batch, units>>

\* Variant of LLMReply that looks at the tool requests before it looks at
\* the early exit.
LLMReplyToolFirst(replies) ==
    /\ pc = "llm"
    /\ attempt < MAX_RETRIES
    /\ \E r \in replies :
         LET assistant_dict == assistant_message_to_dict(r)
             content == ContentOf(assistant_dict)
             tool_calls == assistant_dict.tool_calls
         IN  /\ messages' = Append(messages, assistant_dict)
             /\ calls' = Append(calls, CallRecord)
             /\ IF TakesToolBranch(tool_calls, steps_left)
                THEN /\ pc' = "tool"
                     /\ UNCHANGED <<result, step>>
                ELSE IF EarlyExit(content)
                THEN /\ pc' = "done"
                     /\ result' = content
                     /\ step' = step
                ELSE /\ pc' = "loop"
                     /\ step' = step + 1
                     /\ UNCHANGED result
    /\ attempt' = 0
    /\ sleeps' = <<>>
    /\ last_error' = NoError
    /\ UNCHANGED <<max_steps, query, exc, dispatches>>
    /\ UNCHANGED <<batch, units>>

\* A request succeeded and call_llm_messages returns its message: it is
\* appended, then the early exit and the guard of the tool branch are decided.
LLMReply(replies) ==
    /\ pc = "llm"
    /\ attempt < MAX_RETRIES
    /\ \E r \in replies :
         LET assistant_dict == assistant_message_to_dict(r)
             content == ContentOf(assistant_dict)
             tool_calls == assistant_dict.tool_calls
         IN  /\ messages' = Append(messages, assistant_dict)
             /\ calls' = Append(calls, CallRecord)
             /\ IF EarlyExit(content)
                THEN /\ pc' = "done"
                     /\ result' = content
                     /\ step' = step
                ELSE IF TakesToolBranch(tool_calls, steps_left)
                THEN /\ pc' = "tool"
                     /\ UNCHANGED <<result, step>>
                ELSE /\ pc' = "loop"
                     /\ step' = step + 1
                     /\ UNCHANGED result
    /\ attempt' = 0
    /\ sleeps' = <<>>
    /\ last_error' = NoError
    /\ UNCHANGED <<max_steps, query, exc, dispatches>>
    /\ UNCHANGED <<batch, units>>

\* Variant of LLMNoMessage in which run treats the missing message as an
\* empty round and goes on.
LLMNoMessageSkipsRound ==
    /\ pc = "llm"
    /\ attempt = MAX_RETRIES
    /\ calls' = Append(calls, CallRecord)
    /\ pc' = "loop"
    /\ step' = step + 1
    /\ UNCHANGED <<max_steps, query, messages, result, exc, dispatches>>
    /\ UNCHANGED <<backend, batch, units>>

\* The loop of call_llm_messages ran out: it returns {"message": None} (line
\* 170) and run returns the error string (lines 284-286).
LLMNoMessage ==
    /\ pc = "llm"
    /\ attempt = MAX_RETRIES
    /\ calls' = Append(calls, CallRecord)
    /\ pc' = "done"
    /\ result' = NO_MESSAGE_ERROR
    /\ UNCHANGED <<max_steps, query, messages, step, exc, dispatches>>
    /\ UNCHANGED <<backend, batch, units>>

\* call_llm_messages raised: a request failed with an error that is not
\* retried, or the first call found no API key for the client.
LLMRaises ==
    /\ pc = "llm"
    /\ attempt < MAX_RETRIES
    /\ \/ \E e \in RequestErrors :
            /\ ~Retried(e)
            /\ last_error' = e
       \/ /\ calls = <<>>
          /\ attempt = 0
          /\ last_error' = NO_API_KEY
    /\ calls' = Append(calls, CallRecord)
    /\ pc' = "raised"
    /\ exc' = "BackendError"
    /\ UNCHANGED <<max_steps, query, messages, step, result, dispatches, attempt, sleeps>>
    /\ UNCHANGED <<batch, units>>

first_tc == FirstToolCall(messages[Len(messages)].tool_calls)
fn_name == StripName(first_tc.function.name)
parsed_args == ParseArgs(first_tc.function.arguments)

\* Lines 316-317 raise on arguments that are not a dict.
ToolArgsRaise ==
    /\ pc = "tool"
    /\ ProviderFillRaises(fn_name, parsed_args)
    /\ pc' = "raised"
    /\ exc' = "TypeError: provider"
    /\ UNCHANGED <<max_steps, query, messages, step, result, calls, dispatches>>
    /\ UNCHANGED <<backend, batch, units>>


\* Variant of ToolUnknown without the registry test: TOOL_REGISTRY[fn_name]
\* raises KeyError.
ToolUnknownKeyError ==
    /\ pc = "tool"
    /\ ~ProviderFillRaises(fn_name, parsed_args)
    /\ fn_name \notin TOOL_REGISTRY
    /\ pc' = "raised"
    /\ exc' = "KeyError"
    /\ UNCHANGED <<max_steps, query, messages, step, result, calls, dispatches>>
    /\ UNCHANGED <<backend, batch, units>>

\* Lines 319-327
ToolUnknown ==
    /\ pc = "tool"
    /\ ~ProviderFillRaises(fn_name, parsed_args)
    /\ fn_name \notin TOOL_REGISTRY
    /\ messages' = Append(messages, UnknownToolMsg(fn_name))
    /\ step' = step + 1
    /\ pc' = "loop"
    /\ UNCHANGED <<max_steps, query, result, exc, calls, dispatches>>
    /\ UNCHANGED <<backend, batch, units>>

\* One entry of the dispatch log: outcome is what the search backend or the
\* evaluation did in this call ("none": the tool function raised before).
DispatchRecord(args, outcome) ==
    [step |-> step, name |-> fn_name, id |-> first_tc.id, args |-> args,
     at |-> Len(messages), outcome |-> outcome]

\* Lines 329-346
ToolDispatch ==
    /\ pc = "tool"
    /\ ~ProviderFillRaises(fn_name, parsed_args)
    /\ fn_name \in TOOL_REGISTRY
    /\ LET args == FillProvider(fn_name, parsed_args, CFG_PROVIDER) IN
       IF ToolRaises(fn_name, args)
       THEN /\ dispatches' = Append(dispatches, DispatchRecord(args, "none"))
            /\ pc' = "raised"
            /\ exc' = "AttributeError: tool"
            /\ UNCHANGED <<messages, step>>
       ELSE \E outcome \in ToolOutcomes(fn_name) :
              LET payload == tool_func(fn_name, args, outcome) IN
              /\ dispatches' = Append(dispatches, DispatchRecord(args, outcome))
              /\ IF JsonDumpsRaises(payload)
                 THEN /\ pc' = "raised"
                      /\ exc' = "TypeError: json.dumps"
                      /\ UNCHANGED <<messages, step>>
                 ELSE /\ messages' = ToolTurns(messages, first_tc, payload, fn_name)
                      /\ step' = step + 1
                      /\ pc' = "loop"
                      /\ UNCHANGED exc
    /\ UNCHANGED <<max_steps, query, result, calls>>
    /\ UNCHANGED <<backend, batch, units>>

\* Lines 351-354: the loop is over.
Exhausted ==
    /\ pc = "loop"
    /\ step > max_steps
    /\ result' = ExhaustedResult(messages)
    /\ pc' = "done"
    /\ UNCHANGED <<max_steps, query, messages, step, exc, calls, dispatches>>
    /\ UNCHANGED <<backend, batch, units>>

Next ==
    \/ RoundStart
    \/ LLMTransient
    \/ LLMReply(Replies)
    \/ LLMNoMessage
    \/ LLMRaises
    \/ ToolArgsRaise
    \/ ToolUnknown
    \/ ToolDispatch
    \/ Exhausted

Spec == Init /\ [][Next]_vars

\* ----------------------------------------------------- extract_direct_answer

\* Texts with lines: NL ends a line; a header is a mark at the start of a
\* line, after blanks and bullets only.
DIRECT_MARK == "Direct Answer:"
BULLET == "-"

RECURSIVE SplitLines(_)
SplitLines(t) ==
    IF NL \notin Range(t) THEN <<t>>
    ELSE LET k == CHOOSE k \in DOMAIN t : t[k] = NL /\ \A j \in 1..(k - 1) : t[j] # NL
         IN  <<SubSeq(t, 1, k - 1)>> \o SplitLines(SubSeq(t, k + 1, Len(t)))

\* The lines that are not blank, each stripped.
NonEmptyLines(lines) ==
    LET sel == SelectSeq(lines, LAMBDA l : Strip(l) # <<>>)
    IN  [k \in DOMAIN sel |-> Strip(sel[k])]

\* ^[\s\-•>*]* : the line without its leading blanks and bullets.
RECURSIVE DropPrefix(_)
DropPrefix(line) ==
    IF line # <<>> /\ Head(line) \in {WS, BULLET} THEN DropPrefix(Tail(line)) ELSE line

IsHeader(line, mark) == DropPrefix(line) # <<>> /\ Head(DropPrefix(line)) = mark

FirstHeader(lines, mark) ==
    LET ks == {k \in DOMAIN lines : IsHeader(lines[k], mark)}
    IN  IF ks = {} THEN 0 ELSE CHOOSE k \in ks : \A j \in ks : k <= j

\* The text after the mark on the header line k, stripped.
ValueAt(lines, k) == Strip(Tail(DropPrefix(lines[k])))

LinesAfter(lines, k) == NonEmptyLines(SubSeq(lines, k + 1, Len(lines)))

\* The value of header line k or, when it is empty, the next non-empty line.
ValueOrNext(lines, k) ==
    IF ValueAt(lines, k) # <<>> THEN ValueAt(lines, k)
    ELSE IF LinesAfter(lines, k) # <<>> THEN LinesAfter(lines, k)[1]
    ELSE <<>>

\* None, and `final_text or ""`.
None == <<"<None>">>
OrEmpty(x) == IF x = None THEN <<>> ELSE x

\* Variant of extract_direct_answer that looks for a Verdict line before it
\* looks for a Final Answer header.
extract_direct_answer_verdict_first(final_text) ==
    LET t == Strip(OrEmpty(final_text))
        lines == SplitLines(t)
        m == FirstHeader(lines, DIRECT_MARK)
        fa == FirstHeader(lines, FINAL_MARK)
        v == FirstHeader(lines, VERDICT_MARK)
    IN  IF t = <<>> THEN <<>>
        ELSE IF m > 0 THEN ValueOrNext(lines, m)
        ELSE IF v > 0 /\ ValueOrNext(lines, v) # <<>> THEN ValueOrNext(lines, v)
        ELSE IF fa > 0 /\ LinesAfter(lines, fa) # <<>> THEN LinesAfter(lines, fa)[1]
        ELSE NonEmptyLines(lines)[1]

\* Variant of extract_direct_answer that reads the last Direct Answer line
\* of the text.
extract_direct_answer_last_direct(final_text) ==
    LET t == Strip(OrEmpty(final_text))
        lines == SplitLines(t)
        ms == {k \in DOMAIN lines : IsHeader(lines[k], DIRECT_MARK)}
        m == IF ms = {} THEN 0 ELSE CHOOSE k \in ms : \A j \in ms : k >= j
        fa == FirstHeader(lines, FINAL_MARK)
        v == FirstHeader(lines, VERDICT_MARK)
    IN  IF t = <<>> THEN <<>>
        ELSE IF m > 0 THEN ValueOrNext(lines, m)
        ELSE IF fa > 0 /\ LinesAfter(lines, fa) # <<>> THEN LinesAfter(lines, fa)[1]
        ELSE IF v > 0 /\ ValueOrNext(lines, v) # <<>> THEN ValueOrNext(lines, v)
        ELSE NonEmptyLines(lines)[1]

extract_direct_answer(final_text) ==
    LET t == Strip(OrEmpty(final_text))
        lines == SplitLines(t)
        m == FirstHeader(lines, DIRECT_MARK)
        fa == FirstHeader(lines, FINAL_MARK)
        v == FirstHeader(lines, VERDICT_MARK)
    IN  IF t = <<>> THEN <<>>
        ELSE IF m > 0 THEN ValueOrNext(lines, m)
        ELSE IF fa > 0 /\ LinesAfter(lines, fa) # <<>> THEN LinesAfter(lines, fa)[1]
        ELSE IF v > 0 /\ ValueOrNext(lines, v) # <<>> THEN ValueOrNext(lines, v)
        ELSE NonEmptyLines(lines)[1]

\* ------------------------------------------------------- the batch runner

MaxRows == 2

\* A cell without value (None, NaN).
NA == <<"<NaN>">>

Row(question, full, direct) == [question |-> question, full |-> full, direct |-> direct]

\* `pd.notna(x) and str(x).strip()`
CellOk(x) == x # NA /\ Strip(x) # <<>>

\* Variant of full_ok that takes a failure sentinel for a missing answer.
full_ok_unless_error(r) == CellOk(r.full) /\ Head(r.full) # "[ERROR]"

full_ok(r) == CellOk(r.full)
direct_ok(r) == CellOk(r.direct)

CONTRACT ==
    <<BULLET, WS, PREMISE_MARK, "True", NL, BULLET, WS, VERDICT_MARK, "Yes", NL,
      BULLET, WS, DIRECT_MARK, WS, "answer">>

\* f"[ERROR] {type(e).__name__}: {e}"
ErrorText(e) == <<"[ERROR]", e>>

\* The cells a table can start with: those of a new table and those an
\* earlier run of main left, its failure sentinel included.
FullCells == {NA, <<WS>>, CONTRACT, <<FINAL_MARK, NL, "answer">>, ErrorText("RuntimeError")}
DirectCells == {NA, <<>>, <<"answer">>}

Tables ==
    UNION {[1..n -> {Row(q, f, d) : q \in Questions, f \in FullCells, d \in DirectCells}]
           : n \in 1..MaxRows}

\* What Agent.run returns: a text; and the exceptions that leave it.
RunResults == {CONTRACT, <<FINAL_MARK, "answer">>, <<WS, "thinking">>, <<>>,
               NO_MESSAGE_ERROR, STOPPED}
RunExceptions == {"RuntimeError", "Exception", "TypeError", "AttributeError"}

\* Variant of run_parts that hands the full text back as the direct answer.
run_parts_unextracted(full) == [full |-> full, direct |-> full]

\* run_parts
run_parts(full) == [full |-> full, direct |-> extract_direct_answer(full)]

\* Variant of Caught that handles the failure of the backend only.
CaughtRuntimeErrorOnly(e) == e = "RuntimeError"

\* `except Exception`: every exception that leaves run_parts is an Exception.
Caught(e) == e \in RunExceptions

CHECKPOINT_EVERY == 186

\* Lines 61-63 and 77-79: the checkpoint after the row counted as processed.
Checkpoint(count) ==
    IF count % CHECKPOINT_EVERY = 0 THEN Append(writes, "TMP") ELSE writes

DEFAULT_MAX_STEPS == 8

InitBatch ==
    /\ df \in Tables
    /\ row_i = 1
    /\ processed = 0
    /\ writes = <<>>
    /\ bpc = "loop"
    /\ run_calls = <<>>
    /\ max_steps = DEFAULT_MAX_STEPS
    /\ query \in Questions
    /\ messages = build_react_messages(query)
    /\ step = 1
    /\ pc = "loop"
    /\ result = NoResult
    /\ exc = NoExc
    /\ calls = <<>>
    /\ dispatches = <<>>
    /\ attempt = 0
    /\ sleeps = <<>>
    /\ last_error = NoError
    /\ UnitsIdle

AtRow == bpc = "loop" /\ row_i <= Len(df)

\* Line 67: agent.run_parts(str(q), dbg=False) for row i.
RunCall(i, q) == [i |-> i, q |-> q]

\* Lines 43-49: both answers are there.
BatchSkip ==
    /\ AtRow
    /\ full_ok(df[row_i]) /\ direct_ok(df[row_i])
    /\ row_i' = row_i + 1
    /\ UNCHANGED <<df, processed, writes, bpc, run_calls>>
    /\ UNCHANGED <<agent, units>>

\* Lines 52-64: the full answer is there, the direct one is derived from it.
BatchFillDirect ==
    /\ AtRow
    /\ full_ok(df[row_i]) /\ ~direct_ok(df[row_i])
    /\ df' = [df EXCEPT ![row_i].direct = extract_direct_answer(df[row_i].full)]
    /\ processed' = processed + 1
    /\ writes' = Checkpoint(processed + 1)
    /\ row_i' = row_i + 1
    /\ UNCHANGED <<bpc, run_calls>>
    /\ UNCHANGED <<agent, units>>

\* Lines 66-79, run_parts returned.
BatchRunReturns ==
    /\ AtRow
    /\ ~full_ok(df[row_i])
    /\ run_calls' = Append(run_calls, RunCall(row_i, df[row_i].question))
    /\ \E full \in RunResults :
         LET p == run_parts(full) IN
         df' = [df EXCEPT ![row_i].full = p.full, ![row_i].direct = p.direct]
    /\ processed' = processed + 1
    /\ writes' = Checkpoint(processed + 1)
    /\ row_i' = row_i + 1
    /\ UNCHANGED bpc
    /\ UNCHANGED <<agent, units>>

\* Lines 66-79, run_parts raised.
BatchRunRaises ==
    /\ AtRow
    /\ ~full_ok(df[row_i])
    /\ run_calls' = Append(run_calls, RunCall(row_i, df[row_i].question))
    /\ \E e \in RunExceptions :
         IF Caught(e)
         THEN /\ df' = [df EXCEPT ![row_i].full = ErrorText(e), ![row_i].direct = <<>>]
              /\ processed' = processed + 1
              /\ writes' = Checkpoint(processed + 1)
              /\ row_i' = row_i + 1
              /\ UNCHANGED bpc
         ELSE /\ bpc' = "aborted"
              /\ UNCHANGED <<df, processed, writes, row_i>>
    /\ UNCHANGED <<agent, units>>

\* Lines 81-82: the loop is over, the table is written.
BatchSave ==
    /\ bpc = "loop"
    /\ row_i > Len(df)
    /\ writes' = Append(writes, "OUT")
    /\ bpc' = "saved"
    /\ UNCHANGED <<df, row_i, processed, run_calls>>
    /\ UNCHANGED <<agent, units>>

NextBatch ==
    \/ BatchSkip
    \/ BatchFillDirect
    \/ BatchRunReturns
    \/ BatchRunRaises
    \/ BatchSave

SpecBatch == InitBatch /\ [][NextBatch]_vars

\* ---------------------------------------------------------- turn kinds

IsAssistant(m) == m.role = "assistant"
IsToolResult(m) == m.role = "tool"
IsEvidenceTurn(m) ==
    m.role = "system" /\ Head(m.content) \in {"EVIDENCE BLOCK (from", "EVIDENCE (raw, from"}
IsReflectionTurn(m) == m = SystemMsg(REFLECT_AFTER_TOOL)
IsFinalSynthesis(m) == m.role = "system" /\ Head(m.content) = "FINAL SYNTHESIS CONTEXT"
IsSnapshot(m) ==
    /\ m.role = "system"
    /\ Head(m.content) \in {"SNAPSHOT: Focus on answering the user's question.",
                            "SNAPSHOT: You must stay focused on the user's question."}
IsUnknownNotice(m) == m.role = "system" /\ Head(m.content) = "Requested tool"

AssistantIndices == {i \in DOMAIN messages : IsAssistant(messages[i])}

\* run is over: it returned or an exception left it.
Terminal == pc \in {"done", "raised"}

\* ------------------------------------------------------------- the claims

\* C1: each round dispatches at most one tool function call, and the final
\* round (steps_left = 1) dispatches none, whatever the assistant turn holds.
C1_OneDispatchPerRound ==
    /\ \A i, j \in DOMAIN dispatches :
         dispatches[i].step = dispatches[j].step => i = j
    /\ \A i \in DOMAIN dispatches :
         StepsLeft(dispatches[i].step, max_steps) > 1

\* A run that went through all its rounds: a turn with two tool requests led
\* to one dispatch, and the final round's turn carried tool requests.
C1_Witness ==
    /\ pc = "done"
    /\ step > max_steps
    /\ messages[Len(messages)].tool_calls # <<>>
    /\ \E i \in DOMAIN dispatches :
         Len(messages[dispatches[i].at].tool_calls) = 2

\* C2: no assistant turn of the transcript carries more than one tool request.
C2_AtMostOneRequestPerTurn ==
    \A i \in DOMAIN messages : Len(messages[i].tool_calls) <= 1

\* C3: a model call is offered the whole registry exactly when steps_left > 1
\* and no tools when steps_left = 1, where it follows the final-synthesis
\* turn; with max_steps = 1 there is one model call at most, without tools.
C3_ToolsOfferedExceptFinalRound ==
    /\ \A i \in DOMAIN calls :
         LET c == calls[i]
             sl == StepsLeft(c.step, max_steps)
         IN  /\ sl >= 1
             /\ sl > 1 => c.tools = {"google", "calculator"}
             /\ sl = 1 => c.tools = {} /\ IsFinalSynthesis(c.last)
    /\ max_steps = 1 => Len(calls) <= 1

\* max_steps = 1: the only call was made without tools and the model still
\* answered with a tool request.
C3_Witness ==
    /\ max_steps = 1
    /\ pc = "done"
    /\ Len(calls) = 1
    /\ calls[1].tools = {}
    /\ IsFinalSynthesis(calls[1].last)
    /\ messages[Len(messages)].tool_calls # <<>>

\* C4: for max_steps >= 1, when model and tools return, run makes at most
\* max_steps model calls and max_steps - 1 tool calls and ends by returning a
\* string: it is not left by an exception of its own.
C4_TerminatesWithString ==
    max_steps >= 1 =>
        /\ Len(calls) <= max_steps
        /\ Len(dispatches) <= max_steps - 1
        /\ pc = "done" => result # NoResult
        /\ pc = "raised" => exc \in {"BackendError", "AttributeError: tool"}

\* C5 as stated: the value returned by the early exit is the content as it
\* was appended to the transcript.
C5_ReturnsContentVerbatim ==
    \A i \in DOMAIN messages :
        IsAssistant(messages[i]) /\ FINAL_MARK \in Range(messages[i].content)
            => pc = "done" /\ result = messages[i].content

\* C5, amended: an assistant turn whose content has the final-answer marker
\* is the last turn of the transcript, run has returned that content with
\* the blanks at both ends removed, no model call was made after it and no
\* tool was dispatched for it.
C5_EarlyExitReturnsTrimmed ==
    \A i \in DOMAIN messages :
        IsAssistant(messages[i]) /\ FINAL_MARK \in Range(messages[i].content)
            => /\ pc = "done"
               /\ result = Strip(messages[i].content)
               /\ i = Len(messages)
               /\ Len(calls) = Cardinality(AssistantIndices)
               /\ \A d \in DOMAIN dispatches : dispatches[d].at < i

\* An early exit with rounds left, on a turn that has blanks around the
\* answer and a tool request.
C5_Witness ==
    /\ pc = "done"
    /\ step < max_steps
    /\ LET m == messages[Len(messages)] IN
       /\ IsAssistant(m)
       /\ FINAL_MARK \in Range(m.content)
       /\ m.content # Strip(m.content)
       /\ m.tool_calls # <<>>
       /\ result = Strip(m.content)

\* The three turns of one tool invocation start at index i.
TripleAt(i) ==
    /\ i >= 1
    /\ i + 2 <= Len(messages)
    /\ IsToolResult(messages[i])
    /\ IsEvidenceTurn(messages[i + 1])
    /\ IsReflectionTurn(messages[i + 2])

\* The tool function of the k-th dispatch returned a payload.
ToolReturned(k) == ~(k = Len(dispatches) /\ exc = "AttributeError: tool")

\* The transcript half of C6: tool-result, evidence and reflection turns
\* occur only as the triple of one dispatch, in this order.
TriplesOnly ==
    \A i \in DOMAIN messages :
        /\ IsToolResult(messages[i]) => TripleAt(i)
        /\ IsEvidenceTurn(messages[i]) =>
             /\ TripleAt(i - 1)
             /\ \E k \in DOMAIN dispatches :
                  /\ dispatches[k].at = i - 2
                  /\ messages[i - 1].tool_call_id = dispatches[k].id
                  /\ messages[i].content[2] = dispatches[k].name
        /\ IsReflectionTurn(messages[i]) => TripleAt(i - 2)

\* C6: every tool invocation appends the tool-result turn, one evidence turn
\* and the reflection instruction, in this order, right after the assistant
\* turn; these turns exist only in such triples.
C6_ToolInvocationAppendsTriple ==
    /\ \A k \in DOMAIN dispatches :
         ToolReturned(k) => TripleAt(dispatches[k].at + 1)
    /\ TriplesOnly

\* C7: between two tool dispatches the model has produced an assistant turn
\* that led to no dispatch (the reflection), so the rounds k and k+1 never
\* both dispatch.
C7_ReflectionBeforeNextDispatch ==
    \A k \in DOMAIN dispatches :
        k + 1 \in DOMAIN dispatches =>
            \E a \in AssistantIndices :
                dispatches[k].at < a /\ a < dispatches[k + 1].at

\* C8: a tool-result turn comes right after the assistant turn whose tool
\* request was dispatched, and carries the id of that request.
C8_ToolResultFollowsRequest ==
    \A i \in DOMAIN messages :
        IsToolResult(messages[i]) =>
            /\ i > 1
            /\ IsAssistant(messages[i - 1])
            /\ \E k \in DOMAIN dispatches :
                 /\ dispatches[k].at = i - 1
                 /\ dispatches[k].id = messages[i].tool_call_id
                 /\ \E n \in DOMAIN messages[i - 1].tool_calls :
                      LET tc == messages[i - 1].tool_calls[n] IN
                      /\ tc.id = messages[i].tool_call_id
                      /\ StripName(tc.function.name) = dispatches[k].name

\* A tool result that answers the first of two requests of a turn.
C8_Witness ==
    \E i \in DOMAIN messages :
        /\ IsToolResult(messages[i])
        /\ Len(messages[i - 1].tool_calls) = 2
        /\ messages[i].tool_call_id = "call_1"

\* C9: every step of run leaves the transcript it found as a prefix of the
\* transcript it leaves.
C9_AppendOnly == [][IsPrefix(messages, messages')]_vars

\* A finished run whose transcript holds a turn of every mid-session kind.
C9_Witness ==
    /\ pc = "done"
    /\ \E i \in DOMAIN messages : IsSnapshot(messages[i])
    /\ \E i \in DOMAIN messages : IsEvidenceTurn(messages[i])
    /\ \E i \in DOMAIN messages : IsReflectionTurn(messages[i])
    /\ \E i \in DOMAIN messages : IsUnknownNotice(messages[i])
    /\ \E i \in DOMAIN messages : IsFinalSynthesis(messages[i])

\* C10: the transcript starts with the session rubric and the user turn of
\* the question, and has no other user turn.
C10_RubricThenQuestion ==
    /\ Len(messages) >= 2
    /\ messages[1] = [role |-> "system", content |-> RUBRIC,
                      tool_calls |-> <<>>, tool_call_id |-> ABSENT]
    /\ messages[2] = [role |-> "user", content |-> query,
                      tool_calls |-> <<>>, tool_call_id |-> ABSENT]
    /\ {i \in DOMAIN messages : messages[i].role = "user"} = {2}

\* The last round of a run with several rounds has answered.
C10_Witness ==
    /\ pc = "done"
    /\ max_steps >= 2
    /\ step > max_steps
    /\ IsFinalSynthesis(messages[Len(messages) - 1])
    /\ \E i \in DOMAIN messages : IsSnapshot(messages[i])

\* The round in which the assistant turn at index a was produced.
RoundOf(a) == Cardinality({b \in AssistantIndices : b <= a})

\* The assistant turn at a went into the tool branch: a non-final round, no
\* early exit, at least one tool request.
EntersToolBranch(a) ==
    /\ messages[a].tool_calls # <<>>
    /\ ~IsFinalSynthesis(messages[a - 1])
    /\ FINAL_MARK \notin Range(messages[a].content)
    /\ ~(PREMISE_MARK \in Range(messages[a].content)
         /\ VERDICT_MARK \in Range(messages[a].content))

RequestedName(a) == StripName(messages[a].tool_calls[1].function.name)

\* C11: a tool request of a non-final round that names an unregistered tool
\* leads to no tool call and to exactly one system turn, which lists the
\* registered names; no tool-result, evidence or reflection turn follows, no
\* exception leaves the tool branch, and the next round is started.
C11_UnknownToolReported ==
    \A a \in AssistantIndices :
        EntersToolBranch(a) /\ RequestedName(a) \notin {"google", "calculator"} =>
            \/ pc = "tool" /\ a = Len(messages)
            \/ /\ a + 1 <= Len(messages)
               /\ messages[a + 1] =
                    [role |-> "system",
                     content |-> <<"Requested tool", RequestedName(a),
                                   "is not available. Available:", "calculator, google">>,
                     tool_calls |-> <<>>, tool_call_id |-> ABSENT]
               /\ \A k \in DOMAIN dispatches : dispatches[k].at # a
               /\ a + 2 <= Len(messages) =>
                    /\ ~IsToolResult(messages[a + 2])
                    /\ ~IsEvidenceTurn(messages[a + 2])
                    /\ ~IsReflectionTurn(messages[a + 2])
                    /\ ~IsUnknownNotice(messages[a + 2])
               /\ step > RoundOf(a)
               /\ pc = "raised" /\ exc # "BackendError" =>
                    \E b \in AssistantIndices : b > a

\* A run that was told about an unknown tool in round 1 and answered later.
C11_Witness ==
    /\ pc = "done"
    /\ step > max_steps
    /\ \E a \in AssistantIndices :
         /\ RoundOf(a) = 1
         /\ EntersToolBranch(a)
         /\ RequestedName(a) = "wikipedia"
         /\ IsUnknownNotice(messages[a + 1])

\* The argument string of the request that the dispatch d served.
RawArguments(d) == messages[d.at].tool_calls[1].function.arguments

\* C12: every request that reached a tool function carried an argument string
\* that is valid JSON and satisfies the schema of the tool; a malformed one is
\* never dispatched.
C12_MalformedNotDispatched ==
    \A k \in DOMAIN dispatches :
        LET d == dispatches[k]
            v == json_loads(IF RawArguments(d) = "" THEN ARGS_EMPTY_OBJ ELSE RawArguments(d))
        IN  /\ v.kind # "JSONDecodeError"
            /\ SchemaValid(d.name, v)

\* C13: the tool branch never raises: neither the preparation of the
\* arguments, nor the tool function, nor the serialization of its payload
\* ends the run with an exception, whatever the decoded argument value and
\* the tool outcome.
C13_ToolBranchNeverRaises ==
    /\ exc \notin {"TypeError: provider", "AttributeError: tool", "TypeError: json.dumps"}
    /\ \A k \in DOMAIN dispatches :
         pc # "tool" \/ k < Len(dispatches) => IsToolResult(messages[dispatches[k].at + 1])

\* The payload that the tool function returned for the dispatch d.
PayloadOf(d) == tool_func(d.name, d.args, d.outcome)

\* C14: when the search backend reported a failure for the query, the payload
\* in the tool-result turn has ok = false and carries the backend's error.
C14_SearchFailureVisible ==
    \A k \in DOMAIN dispatches :
        LET d == dispatches[k] IN
        d.name = "google" /\ d.outcome = "failed" =>
            /\ ~PayloadOf(d).ok
            /\ PayloadOf(d).error = SEARCH_ERROR
            /\ messages[d.at + 1].content = json_dumps(PayloadOf(d))
            /\ "false" \in Range(messages[d.at + 1].content)

\* The loop ran through all its rounds and run returned after it.
ReturnedExhausted == pc = "done" /\ step > max_steps

LastAssistantIndex == CHOOSE a \in AssistantIndices : \A b \in AssistantIndices : b <= a

\* C15: when all rounds complete without the early exit, run returns the
\* content of the last assistant turn of the transcript as it stands there;
\* it returns the sentinel only when the transcript has no assistant turn.
C15_ExhaustionReturnsLastAssistant ==
    ReturnedExhausted =>
        IF AssistantIndices = {}
        THEN result = STOPPED
        ELSE /\ result = messages[LastAssistantIndex].content
             /\ result # STOPPED

\* Three rounds, a tool call among them, no contract in the final reply: the
\* untrimmed content of the final reply is returned.
C15_Witness ==
    /\ ReturnedExhausted
    /\ max_steps = 3
    /\ dispatches # <<>>
    /\ result = <<WS, "thinking">>

\* The evidence turns among the first n turns of the transcript, in order.
EvidenceTurnsBefore(n) ==
    LET sel == SelectSeq(SubSeq(messages, 1, n - 1), IsEvidenceTurn)
    IN  [i \in DOMAIN sel |-> sel[i].content]

\* C16: the final-synthesis turn holds the question and the concatenation, in
\* transcript order, of exactly the evidence turns that tool invocations
\* appended before it, whatever the other system turns contain, and it says
\* "[no evidence gathered]" exactly when no tool was invoked.
C16_FinalContextHoldsEvidenceOnly ==
    \A i \in DOMAIN messages :
        IsFinalSynthesis(messages[i]) =>
            LET evs == EvidenceTurnsBefore(i) IN
            /\ messages[i].content =
                 <<"FINAL SYNTHESIS CONTEXT", "User Question:">> \o Strip(query)
                 \o <<"Evidence You Collected:">>
                 \o (IF evs = <<>> THEN <<"[no evidence gathered]">> ELSE JoinEvidence(evs))
                 \o <<"Now produce your final answer following the Answer Contract:">>
            /\ Len(evs) = Cardinality({k \in DOMAIN dispatches : dispatches[k].at < i})
            /\ "[no evidence gathered]" \in Range(messages[i].content) <=> dispatches = <<>>

\* A step in which call_llm_messages returned a message to run.
MessageReturned == Len(messages') = Len(messages) + 1 /\ IsAssistant(messages'[Len(messages')])

\* C17: one backend call makes at most 3 request attempts: a further attempt
\* is made only after a rate-limit or API error of the one before, the first
\* successful attempt returns its message at once, and after the third
\* failure no request is made; with at most max_steps calls, a run makes at
\* most 3 * max_steps requests.
C17_AtMostThreeAttempts ==
    /\ [](/\ attempt \in 0..3
          /\ Len(sleeps) = attempt
          /\ Len(calls) <= max_steps
          /\ pc = "llm" /\ attempt < 3 => 3 * Len(calls) + attempt + 1 <= 3 * max_steps)
    /\ [][/\ attempt' > attempt =>
               /\ attempt' = attempt + 1
               /\ attempt < 3
               /\ last_error' \in {"RateLimitError", "APIError"}
               /\ sleeps' = Append(sleeps, attempt')
               /\ pc = "llm" /\ pc' = "llm" /\ messages' = messages
          /\ MessageReturned => pc = "llm" /\ attempt < 3 /\ attempt' = 0
          /\ attempt = 3 =>
               /\ pc' = "done" /\ result' = NO_MESSAGE_ERROR
               /\ messages' = messages /\ attempt' = 3]_vars

\* The third attempt of the call of round 2 is about to be made: two attempts
\* failed and were retried, the second with a rate-limit error.
C17_Witness ==
    /\ pc = "llm"
    /\ step = 2
    /\ attempt = 2
    /\ last_error = "RateLimitError"
    /\ sleeps = <<1, 2>>

C19_ExhaustedRetriesReturnError ==
    /\ attempt = 3 => pc \in {"llm", "done"}
    /\ result = NO_MESSAGE_ERROR <=> pc = "done" /\ attempt = 3
    /\ pc = "done" /\ attempt = 3 =>
         /\ last_error \in {"RateLimitError", "APIError"}
         /\ sleeps = <<1, 2, 3>>
         /\ exc = NoExc
         /\ Len(calls) = step
         /\ Cardinality(AssistantIndices) = Len(calls) - 1
         /\ \A k \in DOMAIN dispatches : dispatches[k].step < step

\* The call of round 2 gave up, after a tool call in round 1.
C19_Witness ==
    /\ pc = "done"
    /\ result = NO_MESSAGE_ERROR
    /\ step = 2
    /\ max_steps = 3
    /\ dispatches # <<>>

\* The rows the loop of the batch runner is through with.
RowsDone == 1..(row_i - 1)

\* C20: in the batch runner every row the loop is through with has a string
\* as its answer, whether run_parts returned or raised; no exception of
\* run_parts ends the batch, and the table is saved only after the loop went
\* through every row.
C20_EveryQuestionGetsString ==
    /\ bpc # "aborted"
    /\ row_i \in 1..(Len(df) + 1)
    /\ \A j \in RowsDone : df[j].full # NA /\ df[j].direct # NA
    /\ bpc = "saved" => row_i = Len(df) + 1 /\ writes = <<"OUT">>
    /\ processed <= Cardinality(RowsDone)

\* run_parts raised for the first question; the second one was answered
\* after it and the table was saved.
C20_Witness ==
    /\ bpc = "saved"
    /\ Len(df) = 2
    /\ df[1].full = <<"[ERROR]", "TypeError">>
    /\ df[1].direct = <<>>
    /\ df[2].full = CONTRACT
    /\ df[2].direct = <<"answer">>
    /\ processed = 2

\* ------------------------------------------- extract_direct_answer, called

MaxLines == 3

\* The lines a text is made of: plain, blank, and headers with and without
\* value, with and without bullet, at the start of the line or inside it.
LineShapes ==
    {<<>>, <<WS>>, <<BULLET>>, <<"a">>, <<"a", WS, DIRECT_MARK, WS, "b">>,
     <<DIRECT_MARK>>, <<DIRECT_MARK, WS, "a">>, <<BULLET, WS, DIRECT_MARK, WS, "b", WS>>,
     <<DIRECT_MARK, WS, VERDICT_MARK, WS, "b">>,
     <<FINAL_MARK>>, <<FINAL_MARK, WS, "a">>,
     <<VERDICT_MARK>>, <<BULLET, WS, VERDICT_MARK, WS, "b">>}

RECURSIVE JoinLines(_)
JoinLines(ls) ==
    IF Len(ls) = 0 THEN <<>>
    ELSE IF Len(ls) = 1 THEN ls[1]
    ELSE ls[1] \o <<NL>> \o JoinLines(Tail(ls))

Texts == {JoinLines(ls) : ls \in UNION {[1..n -> LineShapes] : n \in 1..MaxLines}}

\* An agent that was constructed and has not run.
AgentIdle ==
    /\ max_steps = DEFAULT_MAX_STEPS
    /\ query \in Questions
    /\ messages = build_react_messages(query)
    /\ step = 1
    /\ pc = "loop"
    /\ result = NoResult
    /\ exc = NoExc
    /\ calls = <<>>
    /\ dispatches = <<>>
    /\ attempt = 0
    /\ sleeps = <<>>
    /\ last_error = NoError

InitExtract ==
    /\ given_text \in Texts \cup {<<>>, None}
    /\ extracted = NotCalled
    /\ parts = NoParts
    /\ expression = NotCalled
    /\ calc_result = NotCalled
    /\ sdata = NotCalled
    /\ rendered = NotCalled
    /\ openai_client = NotCalled
    /\ tool_registry = NotCalled
    /\ sessions = NotCalled
    /\ ApiIdle
    /\ LabelIdle
    /\ BatchIdle
    /\ AgentIdle

\* One call of extract_direct_answer.
ExtractCall ==
    /\ extracted = NotCalled
    /\ extracted' = extract_direct_answer(given_text)
    /\ UNCHANGED <<agent, batch, parts, given_text, calc_vars, format_vars, shared_vars, api_vars, label_vars>>

NextExtract == ExtractCall

SpecExtract == InitExtract /\ [][NextExtract]_vars

\* ------------------------------------------------------ _calc_impl, called

MaxWraps == 2

\* Expressions as the parser hands them to eval, in prefix form: numbers, a
\* string, a name, the arithmetic operators, attribute access, a list
\* display, a lambda and a call without arguments.
Numbers == {"0", "2"}
ArithOps == {"+", "*", "//"}
Wrappers == {".real", "[]", "lambda:", "()"}
Atoms == {<<"0">>, <<"2">>, <<"'a'">>, <<"x">>}
Terms == Atoms \cup {<<op>> \o l \o r : op \in ArithOps, l \in Atoms, r \in Atoms}

RECURSIVE Wrapped(_)
Wrapped(d) ==
    IF d = 0 THEN Terms
    ELSE Wrapped(d - 1) \cup {<<w>> \o e : w \in Wrappers, e \in Wrapped(d - 1)}

\* A string that is no expression: eval raises SyntaxError before it
\* evaluates anything ('' and '2+').
NotAnExpression == {<<>>, <<"2", "+">>}

Expressions == Wrapped(MaxWraps) \cup NotAnExpression

Arity(tok) == IF tok \in ArithOps THEN 2 ELSE IF tok \in Wrappers THEN 1 ELSE 0

\* The index after the expression that starts at i.
RECURSIVE ExprEnd(_, _)
ExprEnd(ts, i) ==
    CASE Arity(ts[i]) = 0 -> i + 1
      [] Arity(ts[i]) = 1 -> ExprEnd(ts, i + 1)
      [] OTHER -> ExprEnd(ts, ExprEnd(ts, i + 1))

WellFormed(ts) == ts # <<>> /\ ts[Len(ts)] \notin ArithOps /\ ExprEnd(ts, 1) = Len(ts) + 1

\* Python values: an int n, a str or a list of length n, a function with
\* its body, or the exception that was raised.
Value(t, n) == [t |-> t, n |-> n, body |-> <<>>]
Function(body) == [t |-> "function", n |-> 0, body |-> body]
Raised(name) == [t |-> name, n |-> 0, body |-> <<>>]
IsRaised(v) == v.t \in {"SyntaxError", "NameError", "TypeError", "ZeroDivisionError",
                        "AttributeError"}

Sized(v) == v.t \in {"str", "list"}

BinOp(op, a, b) ==
    CASE IsRaised(a) -> a
      [] IsRaised(b) -> b
      [] op = "+" /\ a.t = b.t /\ a.t \in {"int", "str", "list"} -> Value(a.t, a.n + b.n)
      [] op = "*" /\ a.t = "int" /\ b.t = "int" -> Value("int", a.n * b.n)
      [] op = "*" /\ Sized(a) /\ b.t = "int" -> Value(a.t, a.n * b.n)
      [] op = "*" /\ a.t = "int" /\ Sized(b) -> Value(b.t, a.n * b.n)
      [] op = "//" /\ a.t = "int" /\ b.t = "int" ->
            IF b.n = 0 THEN Raised("ZeroDivisionError") ELSE Value("int", a.n \div b.n)
      [] OTHER -> Raised("TypeError")

\* eval(expr, {"__builtins__": {}}): there are no names to look up; nothing
\* else is refused.
RECURSIVE Eval(_)
Eval(ts) ==
    LET tok == ts[1]
        rest == Tail(ts)
    IN  CASE tok \in Numbers -> Value("int", IF tok = "0" THEN 0 ELSE 2)
          [] tok = "'a'" -> Value("str", 1)
          [] tok = "x" -> Raised("NameError")
          [] tok \in ArithOps ->
                LET m == ExprEnd(ts, 2) IN
                BinOp(tok, Eval(SubSeq(ts, 2, m - 1)), Eval(SubSeq(ts, m, Len(ts))))
          [] tok = ".real" ->
                LET v == Eval(rest) IN
                IF IsRaised(v) \/ v.t = "int" THEN v ELSE Raised("AttributeError")
          [] tok = "[]" ->
                LET v == Eval(rest) IN IF IsRaised(v) THEN v ELSE Value("list", 1)
          [] tok = "lambda:" -> Function(rest)
          [] OTHER ->
                LET v == Eval(rest) IN
                IF IsRaised(v) THEN v
                ELSE IF v.t = "function" THEN Eval(v.body)
                ELSE Raised("TypeError")

eval(expr) == IF WellFormed(expr) THEN Eval(expr) ELSE Raised("SyntaxError")

NoValue == Value("none", 0)
CalcPayload(ok, res, error) == [ok |-> ok, result |-> res, error |-> error]

\* _calc_impl has not returned.
CalcNotCalled == CalcPayload(FALSE, NoValue, "<not called>")

\* Lines 76-81: the payload of _calc_impl for the expression of its argument.
calc_expression(expr) ==
    LET v == eval(expr) IN
    IF IsRaised(v) THEN CalcPayload(FALSE, NoValue, v.t) ELSE CalcPayload(TRUE, v, ABSENT)

InitCalc ==
    /\ expression \in Expressions
    /\ calc_result = CalcNotCalled
    /\ parts = NoParts
    /\ given_text = NotCalled
    /\ extracted = NotCalled
    /\ sdata = NotCalled
    /\ rendered = NotCalled
    /\ openai_client = NotCalled
    /\ tool_registry = NotCalled
    /\ sessions = NotCalled
    /\ ApiIdle
    /\ LabelIdle
    /\ BatchIdle
    /\ AgentIdle

\* One call of _calc_impl.
CalcCall ==
    /\ calc_result = CalcNotCalled
    /\ calc_result' = calc_expression(expression)
    /\ UNCHANGED <<agent, batch, parts, extract_vars, expression, format_vars, shared_vars, api_vars, label_vars>>

NextCalc == CalcCall

SpecCalc == InitCalc /\ [][NextCalc]_vars

\* ------------------------------------------ freshprompt_format, called

MaxOrganic == 2

\* Dates as the search engine gives them: none, a day (as a day number), so
\* many hours or days ago, or a text that is no date.
RawDate(kind, n) == [kind |-> kind, n |-> n]
RawDates ==
    {RawDate("none", 0), RawDate("day", 10), RawDate("day", 20),
     RawDate("hours ago", 2), RawDate("days ago", 3), RawDate("no date", 0)}

\* CURRENT_DATE_STR as a day number.
CURRENT_DATE == 30

NoDate == RawDate("none", 0)

\* format_date: the date as '%b %d, %Y', None when nothing parses.
format_date(d) ==
    CASE d.kind = "none" -> NoDate
      [] d.kind = "hours ago" -> RawDate("day", CURRENT_DATE)
      [] d.kind = "days ago" -> RawDate("day", CURRENT_DATE - d.n)
      [] d.kind = "day" -> RawDate("day", d.n)
      [] OTHER -> NoDate

\* pd.to_datetime(errors="coerce") of a normalized date: NaT for None.
NaT == [nat |-> TRUE, n |-> 0]
to_datetime(date) == IF date = NoDate THEN NaT ELSE [nat |-> FALSE, n |-> date.n]

\* One row of the evidence table; the source stands for the text columns.
EvidenceRow(source, date) == [source |-> source, date |-> date]
EmptyRow == EvidenceRow(ABSENT, NoDate)

\* format_search_results, format_knowledge_graph: the row of one result; {}
\* gives the empty row, a knowledge graph has no date.
format_search_results(sd) ==
    IF sd = EmptyRow THEN EmptyRow ELSE EvidenceRow(sd.source, format_date(sd.date))
format_knowledge_graph(sd) ==
    IF sd = EmptyRow THEN EmptyRow ELSE EvidenceRow(sd.source, NoDate)

Reverse(seq) == [i \in 1..Len(seq) |-> seq[Len(seq) + 1 - i]]

\* The search data of a call: organic results, a knowledge graph or none,
\* an answer box or none.
OrganicLists ==
    UNION {[1..n -> {EvidenceRow("organic", d) : d \in RawDates}] : n \in 0..MaxOrganic}
SearchInputs ==
    [organic_results : OrganicLists,
     knowledge_graph : {EmptyRow, EvidenceRow("knowledge_graph", NoDate)},
     answer_box : {EmptyRow} \cup {EvidenceRow("answer_box", d) : d \in RawDates},
     num_retrieved_evidences : {2, 6}]

\* Lines 274-320: the table before it is sorted, each category appended in
\* reverse.
AppendedRows(sd) ==
    Reverse([k \in 1..Len(sd.organic_results) |-> format_search_results(sd.organic_results[k])])
    \o <<format_knowledge_graph(sd.knowledge_graph)>>
    \o <<format_search_results(sd.answer_box)>>

\* Line 322: df["date"].apply(format_date), on dates already normalized.
Renormalized(rows) ==
    [k \in DOMAIN rows |-> EvidenceRow(rows[k].source, format_date(rows[k].date))]

Orders(n) == {p \in [1..n -> 1..n] : \A i, j \in 1..n : p[i] = p[j] => i = j}

\* Variant of Before that puts the rows without datetime last.
BeforeNaLast(a, b) ==
    IF b.nat THEN TRUE ELSE IF a.nat THEN FALSE ELSE a.n <= b.n

\* The order of sort_values(by="datetime", na_position="first").
Before(a, b) ==
    IF a.nat THEN TRUE ELSE IF b.nat THEN FALSE ELSE a.n <= b.n

\* The tables sort_values may return: the sort is not stable, rows of equal
\* datetime come in any order.
sort_values(rows) ==
    {[i \in DOMAIN rows |-> rows[p[i]]] :
        p \in {q \in Orders(Len(rows)) :
                 \A i, j \in DOMAIN rows :
                    i < j => Before(to_datetime(rows[q[i]].date),
                                    to_datetime(rows[q[j]].date))}}

\* dropna(how="all")
dropna(rows) == SelectSeq(rows, LAMBDA r : r # EmptyRow)

\* Variant of tail that keeps the first rows of the table.
head(rows, n) ==
    IF Len(rows) <= n THEN rows ELSE SubSeq(rows, 1, n)

\* df.tail(n)
tail(rows, n) ==
    IF Len(rows) <= n THEN rows ELSE SubSeq(rows, Len(rows) - n + 1, Len(rows))

\* Lines 322-340: the evidence blocks that freshprompt_format may render.
freshprompt_evidences(sd) ==
    {tail(dropna(sorted), sd.num_retrieved_evidences) :
        sorted \in sort_values(Renormalized(AppendedRows(sd)))}

\* freshprompt_format has not returned.
NotRendered == <<EvidenceRow("<not called>", NoDate)>>

InitFormat ==
    /\ sdata \in SearchInputs
    /\ rendered = NotRendered
    /\ parts = NoParts
    /\ given_text = NotCalled
    /\ extracted = NotCalled
    /\ expression = NotCalled
    /\ calc_result = NotCalled
    /\ openai_client = NotCalled
    /\ tool_registry = NotCalled
    /\ sessions = NotCalled
    /\ ApiIdle
    /\ LabelIdle
    /\ BatchIdle
    /\ AgentIdle

\* One call of freshprompt_format.
FormatCall ==
    /\ rendered = NotRendered
    /\ rendered' \in freshprompt_evidences(sdata)
    /\ UNCHANGED <<agent, batch, parts, extract_vars, calc_vars, sdata, shared_vars, api_vars, label_vars>>

NextFormat == FormatCall

SpecFormat == InitFormat /\ [][NextFormat]_vars

\* ------------------------------------------------ two runs in one process

ScriptRounds == 2

Runs == {1, 2}

\* What the backend and the search answer to a run, round by round: the
\* model thinks aloud, asks for a search, or gives its final answer; every
\* search returns results.
ScriptReplies ==
    {Reply(<<WS, "thinking">>, <<>>),
     Reply(<<>>, <<TC("call_1", "google", ARGS_Q)>>),
     Reply(<<FINAL_MARK, "answer">>, <<>>)}
Scripts == [1..ScriptRounds -> ScriptReplies]

\* openai_client = None, and the clients the runs construct.
NoClient == "None"
ClientOf(r) == IF r = 1 THEN "client constructed by run 1" ELSE "client constructed by run 2"

Session(script, cpc, msgs, st, res, used) ==
    [script |-> script, pc |-> cpc, messages |-> msgs, step |-> st, result |-> res,
     client |-> used]

\* The search of a scripted round.
ScriptedToolTurns(msgs) ==
    LET tc == FirstToolCall(msgs[Len(msgs)].tool_calls)
        name == StripName(tc.function.name)
        args == FillProvider(name, ParseArgs(tc.function.arguments), CFG_PROVIDER)
    IN  ToolTurns(msgs, tc, tool_func(name, args, "results"), name)

\* The transcript and the result of a run that is alone in the process.
RECURSIVE AloneFrom(_, _, _, _)
AloneFrom(msgs, user_query, st, script) ==
    IF st > ScriptRounds
    THEN [messages |-> msgs, result |-> ExhaustedResult(msgs)]
    ELSE LET sl == StepsLeft(st, ScriptRounds)
             prompt == WithFinalContext(WithSnapshot(msgs, user_query, st, sl), user_query, sl)
             assistant_dict == assistant_message_to_dict(script[st])
             appended == Append(prompt, assistant_dict)
             content == ContentOf(assistant_dict)
         IN  IF EarlyExit(content) THEN [messages |-> appended, result |-> content]
             ELSE IF TakesToolBranch(assistant_dict.tool_calls, sl)
             THEN AloneFrom(ScriptedToolTurns(appended), user_query, st + 1, script)
             ELSE AloneFrom(appended, user_query, st + 1, script)

Alone(user_query, script) == AloneFrom(build_react_messages(user_query), user_query, 1, script)

InitShared ==
    /\ AgentIdle
    /\ openai_client = NoClient
    /\ tool_registry = TOOL_REGISTRY
    /\ sessions \in [Runs -> {Session(sc, "loop", build_react_messages(query), 1, NoResult,
                                      NoClient) : sc \in Scripts}]
    /\ parts = NoParts
    /\ given_text = NotCalled
    /\ extracted = NotCalled
    /\ expression = NotCalled
    /\ calc_result = NotCalled
    /\ sdata = NotCalled
    /\ rendered = NotCalled
    /\ ApiIdle
    /\ LabelIdle
    /\ BatchIdle

OthersUnchanged ==
    UNCHANGED <<agent, batch, parts, extract_vars, calc_vars, format_vars, api_vars, label_vars>>

\* agent.py 255-271 and llm_api.py 119-120: the head of a round, up to the
\* test `openai_client is None` in call_llm_messages.
SharedRoundStart(r) ==
    LET s == sessions[r]
        sl == StepsLeft(s.step, ScriptRounds)
    IN  /\ s.pc = "loop"
        /\ s.step <= ScriptRounds
        /\ sessions' = [sessions EXCEPT
              ![r].messages = WithFinalContext(WithSnapshot(s.messages, query, s.step, sl),
                                               query, sl),
              ![r].pc = IF openai_client = NoClient THEN "create" ELSE "request"]
        /\ UNCHANGED <<openai_client, tool_registry>>
        /\ OthersUnchanged

\* llm_api.py 121-135: the run found no client, builds one and stores it in
\* the module-level variable.
SharedCreateClient(r) ==
    /\ sessions[r].pc = "create"
    /\ openai_client' = ClientOf(r)
    /\ sessions' = [sessions EXCEPT ![r].pc = "request"]
    /\ UNCHANGED tool_registry
    /\ OthersUnchanged

\* llm_api.py 157-158 and agent.py 284-305: the request goes through the
\* client that the module-level variable holds now; the reply is appended,
\* then the early exit and the guard of the tool branch are decided.
SharedRequest(r) ==
    LET s == sessions[r]
        sl == StepsLeft(s.step, ScriptRounds)
        assistant_dict == assistant_message_to_dict(s.script[s.step])
        content == ContentOf(assistant_dict)
        appended == Append(s.messages, assistant_dict)
    IN  /\ s.pc = "request"
        /\ sessions' = [sessions EXCEPT
              ![r] = IF EarlyExit(content)
                     THEN Session(s.script, "done", appended, s.step, content, openai_client)
                     ELSE IF TakesToolBranch(assistant_dict.tool_calls, sl)
                     THEN Session(s.script, "tool", appended, s.step, s.result, openai_client)
                     ELSE Session(s.script, "loop", appended, s.step + 1, s.result,
                                  openai_client)]
        /\ UNCHANGED <<openai_client, tool_registry>>
        /\ OthersUnchanged

\* agent.py 306-346: the tool is looked up in the registry and called.
SharedToolDispatch(r) ==
    LET s == sessions[r] IN
    /\ s.pc = "tool"
    /\ StripName(FirstToolCall(s.messages[Len(s.messages)].tool_calls).function.name)
          \in tool_registry
    /\ sessions' = [sessions EXCEPT ![r].messages = ScriptedToolTurns(s.messages),
                                    ![r].step = s.step + 1,
                                    ![r].pc = "loop"]
    /\ UNCHANGED <<openai_client, tool_registry>>
    /\ OthersUnchanged

\* agent.py 351-354
SharedExhausted(r) ==
    LET s == sessions[r] IN
    /\ s.pc = "loop"
    /\ s.step > ScriptRounds
    /\ sessions' = [sessions EXCEPT ![r].result = ExhaustedResult(s.messages),
                                    ![r].pc = "done"]
    /\ UNCHANGED <<openai_client, tool_registry>>
    /\ OthersUnchanged

NextShared ==
    \E r \in Runs :
        \/ SharedRoundStart(r)
        \/ SharedCreateClient(r)
        \/ SharedRequest(r)
        \/ SharedToolDispatch(r)
        \/ SharedExhausted(r)

SpecShared == InitShared /\ [][NextShared]_vars

\* ------------------------------------------------- run_parts around one run

\* The replies of a run made through run_parts: an Answer Contract, and the
\* replies that lead through every branch of the loop.
PartsReplies ==
    {Reply(CONTRACT, <<>>),
     Reply(<<WS, FINAL_MARK, NL, "answer", WS>>, <<>>),
     Reply(<<WS, "thinking">>, <<TC("call_1", "google", ARGS_Q)>>),
     Reply(<<>>, <<TC("call_1", "google", ARGS_LIST)>>),
     Reply(<<>>, <<TC("call_1", "wikipedia", ARGS_LIST)>>),
     Reply(<<VERDICT_MARK, "Yes">>, <<>>)}

\* Lines 364-365: run has returned; the direct answer is extracted from what
\* it returned and both are handed back.  An exception of run leaves
\* run_parts at line 364.
RunPartsReturn ==
    /\ pc = "done"
    /\ parts = NoParts
    /\ parts' = run_parts(result)
    /\ UNCHANGED agent
    /\ UNCHANGED <<batch, extract_vars, calc_vars, format_vars, shared_vars, api_vars, label_vars>>

NextParts ==
    \/ RoundStart
    \/ LLMTransient
    \/ LLMReply(PartsReplies)
    \/ LLMNoMessage
    \/ LLMRaises
    \/ ToolArgsRaise
    \/ ToolUnknown
    \/ ToolDispatch
    \/ Exhausted
    \/ RunPartsReturn

SpecParts == Init /\ [][NextParts]_vars

\* C21: run_parts makes the model calls and the tool calls of one run and
\* no others: when it returns, the run has ended, the logs of model calls and
\* of tool dispatches are the run's, untouched by the return, the run made at
\* most one model call per round; 'full' is the value run returned and
\* 'direct' is extract_direct_answer of that value.
C21_RunPartsIsRunThenExtract ==
    /\ [](parts # NoParts =>
            /\ pc = "done"
            /\ parts.full = result
            /\ parts.direct = extract_direct_answer(result)
            /\ Len(calls) <= max_steps
            /\ Len(dispatches) <= Len(calls))
    /\ [][parts' # parts =>
            /\ pc = "done" /\ pc' = "done"
            /\ calls' = calls
            /\ dispatches' = dispatches
            /\ messages' = messages
            /\ result' = result]_vars

\* run_parts has returned an Answer Contract whose direct answer is one line
\* of it, after a run that called the model twice and a tool once.
C21_Witness ==
    /\ parts # NoParts
    /\ parts.full = CONTRACT
    /\ parts.direct = <<"answer">>
    /\ Len(calls) = 2
    /\ Len(dispatches) = 1

\* ---------------------------------------------- claims on the extractor

\* The lines of the text that was given, trimmed as line 87 trims it.
GivenLines == SplitLines(Strip(OrEmpty(given_text)))

Returned == extracted # NotCalled

\* What each strategy finds in the given text.
DirectAt == FirstHeader(GivenLines, DIRECT_MARK)
FinalAt == FirstHeader(GivenLines, FINAL_MARK)
VerdictAt == FirstHeader(GivenLines, VERDICT_MARK)
DirectFound == DirectAt > 0
FinalFound == FinalAt > 0 /\ LinesAfter(GivenLines, FinalAt) # <<>>
VerdictFound == VerdictAt > 0 /\ ValueOrNext(GivenLines, VerdictAt) # <<>>
FirstLineFound == NonEmptyLines(GivenLines) # <<>>

DirectLinesWithValue ==
    {k \in DOMAIN GivenLines :
        IsHeader(GivenLines[k], DIRECT_MARK) /\ ValueAt(GivenLines, k) # <<>>}

IsString(x) == x # None /\ x # NotCalled /\ DOMAIN x = 1..Len(x)

\* Every input is answered with a string: the function has a value for the
\* text given, before the call and after it.
ExtractIsTotal ==
    /\ IsString(extract_direct_answer(given_text))
    /\ Returned => IsString(extracted)

\* C23, as stated: extract_direct_answer is total, and for a text that has
\* a line `Direct Answer: <value>` with a value it returns that value.
C23_ReturnsTheDirectValue ==
    /\ ExtractIsTotal
    /\ Returned /\ DirectLinesWithValue # {}
         => \E k \in DirectLinesWithValue : extracted = ValueAt(GivenLines, k)

\* C23, amended: extract_direct_answer is total, and for a text whose first
\* Direct Answer line has a value it returns that value.
C23_ReturnsTheFirstDirectValue ==
    /\ ExtractIsTotal
    /\ Returned /\ DirectFound /\ ValueAt(GivenLines, DirectAt) # <<>>
         => extracted = ValueAt(GivenLines, DirectAt)

\* A text with two Direct Answer lines of different values, the first after
\* another line: the value of the first was returned.
C23_Witness ==
    /\ Returned
    /\ DirectAt > 1
    /\ \E k \in DirectLinesWithValue :
          k > DirectAt /\ ValueAt(GivenLines, k) # ValueAt(GivenLines, DirectAt)
    /\ extracted = ValueAt(GivenLines, DirectAt)
    /\ extracted # <<>>

\* C27: extract_direct_answer is idempotent: applied to what it returned,
\* it returns the same string.
C27_Idempotent ==
    Returned => extract_direct_answer(extracted) = extracted

\* ------------------------------------------ claims on the rounds of a run

\* The early-exit condition, read on a turn's content.
HasExitMarks(c) ==
    \/ FINAL_MARK \in Range(c)
    \/ PREMISE_MARK \in Range(c) /\ VERDICT_MARK \in Range(c)

HasOneMarkOnly(c) ==
    /\ FINAL_MARK \notin Range(c)
    /\ (PREMISE_MARK \in Range(c)) # (VERDICT_MARK \in Range(c))

\* C28: an assistant turn that satisfies the early-exit condition ends the
\* run in its round, with or without a tool request and with rounds left or
\* not: it is the last turn of the transcript, no tool was invoked for it and
\* run has returned its trimmed content; and run returns before the rounds
\* are used up on such a turn only (or on a missing backend message): a turn
\* that holds only one of 'Premise:' and 'Verdict:' and no 'Final Answer:'
\* does not make it return.
C28_EarlyExitBeforeToolBranch ==
    /\ \A a \in AssistantIndices :
          HasExitMarks(messages[a].content) =>
              /\ a = Len(messages)
              /\ pc = "done"
              /\ result = Strip(messages[a].content)
              /\ \A i \in DOMAIN dispatches : dispatches[i].at # a
    /\ \A a \in AssistantIndices :
          HasOneMarkOnly(messages[a].content) /\ a = Len(messages) =>
              \/ pc \in {"tool", "loop"} /\ result = NoResult
              \/ pc = "done" /\ step > max_steps
              \/ pc = "raised"
    /\ pc = "done" /\ step <= max_steps /\ result # NO_MESSAGE_ERROR =>
          /\ IsAssistant(messages[Len(messages)])
          /\ HasExitMarks(messages[Len(messages)].content)

\* A turn with 'Premise:' and 'Verdict:' that also asks for a search, in a
\* round that is not the last, after a round that searched: run has returned.
C28_Witness ==
    /\ pc = "done"
    /\ step < max_steps
    /\ Len(dispatches) = 1
    /\ LET m == messages[Len(messages)] IN
       /\ IsAssistant(m)
       /\ FINAL_MARK \notin Range(m.content)
       /\ PREMISE_MARK \in Range(m.content) /\ VERDICT_MARK \in Range(m.content)
       /\ m.tool_calls # <<>>
       /\ result = Strip(m.content)
       /\ dispatches[1].at < Len(messages)

SnapshotCount(msgs) == Cardinality({i \in DOMAIN msgs : IsSnapshot(msgs[i])})

\* The latest assistant turn of the transcript has content after trimming.
LatestAssistantSaysSomething ==
    /\ AssistantIndices # {}
    /\ LET a == CHOOSE a \in AssistantIndices : \A b \in AssistantIndices : b <= a
       IN  Strip(messages[a].content) # <<>>

\* C29: the head of a round appends one focus snapshot when the round is not
\* the first, more than one step remains and the latest assistant turn has
\* content after trimming, and none otherwise; the snapshot is then the last
\* turn of the prompt of that round's model call; no other step of the run
\* appends a snapshot.
C29_SnapshotExactlyWhenFocused ==
    /\ [][pc = "loop" /\ pc' = "llm" =>
            IF step > 1 /\ max_steps - step + 1 > 1 /\ LatestAssistantSaysSomething
            THEN /\ messages' = Append(messages, messages'[Len(messages')])
                 /\ IsSnapshot(messages'[Len(messages')])
                 /\ SnapshotCount(messages') = SnapshotCount(messages) + 1
            ELSE SnapshotCount(messages') = SnapshotCount(messages)]_vars
    /\ [][~(pc = "loop" /\ pc' = "llm") =>
            SnapshotCount(messages') = SnapshotCount(messages)]_vars
    /\ [](\A k \in DOMAIN calls :
            IsSnapshot(calls[k].last) => calls[k].step > 1 /\ calls[k].steps_left > 1)
    /\ [](SnapshotCount(messages) <= Len(calls))

\* Round 2 of 3 after a round that only thought aloud: the snapshot is the
\* last turn of the prompt and the model is about to be called.
C29_Witness ==
    /\ pc = "llm"
    /\ step = 2
    /\ max_steps = 3
    /\ dispatches = <<>>
    /\ IsSnapshot(messages[Len(messages)])
    /\ IsAssistant(messages[Len(messages) - 1])
    /\ SnapshotCount(messages) = 1

\* The arguments the model sent with the request of dispatch d, decoded.
SentArgs(d) == ParseArgs(RawArguments(d))

\* C30: the search tool is called with the provider the model sent when it
\* sent one, and with the provider of the session config when it sent none;
\* the other arguments of the search, and all arguments of any other tool,
\* are passed as they were sent.
C30_ProviderFilledOnlyWhenAbsent ==
    \A i \in DOMAIN dispatches :
        LET d == dispatches[i] IN
        IF d.name = "google"
        THEN /\ SentArgs(d).provider # ABSENT => d.args.provider = SentArgs(d).provider
             /\ SentArgs(d).provider = ABSENT => d.args.provider = CFG_PROVIDER
             /\ d.args.question = SentArgs(d).question
             /\ d.args.expression = SentArgs(d).expression
        ELSE d.args = SentArgs(d)

\* A search that was sent with a provider other than the configured one and
\* called with it, after a search sent without provider, and a calculator
\* call in the same run.
C30_Witness ==
    /\ \E i \in DOMAIN dispatches :
          /\ dispatches[i].name = "google"
          /\ SentArgs(dispatches[i]).provider \notin {ABSENT, CFG_PROVIDER}
          /\ dispatches[i].args.provider = SentArgs(dispatches[i]).provider
    /\ \E i \in DOMAIN dispatches :
          /\ dispatches[i].name = "google"
          /\ SentArgs(dispatches[i]).provider = ABSENT
          /\ dispatches[i].args.provider = CFG_PROVIDER

\* ---------------------------------------------- claims on the calculator

CalcReturned == calc_result # CalcNotCalled

\* An expression of numbers and arithmetic operators only.
PureArithmetic(expr) ==
    WellFormed(expr) /\ \A i \in DOMAIN expr : expr[i] \in Numbers \cup ArithOps

\* C26: the calculator answers {ok: false, error} to every expression that
\* is not pure arithmetic, and {ok: true, result} to pure arithmetic only.
C26_CalculatorOnlyArithmetic ==
    CalcReturned =>
        /\ ~PureArithmetic(expression) => ~calc_result.ok /\ calc_result.error # ABSENT
        /\ calc_result.ok => PureArithmetic(expression)

\* -------------------------------------------- claims on the evidence block

Rendered == rendered # NotRendered

\* C24: in the rendered evidence block every entry without normalized date
\* comes before every entry with one, and the dated entries come in
\* non-decreasing order of their normalized date.
C24_UndatedFirstThenAscending ==
    Rendered =>
        \A i, j \in DOMAIN rendered :
            i < j =>
                /\ rendered[j].date = NoDate => rendered[i].date = NoDate
                /\ rendered[i].date # NoDate /\ rendered[j].date # NoDate
                     => rendered[i].date.n <= rendered[j].date.n

\* Three entries of three categories were rendered: the knowledge graph,
\* undated, then an organic result and the answer box with different dates,
\* the answer box given as a relative date.
C24_Witness ==
    /\ Rendered
    /\ Len(rendered) = 3
    /\ sdata.answer_box.date.kind = "days ago"
    /\ rendered[1].source = "knowledge_graph" /\ rendered[1].date = NoDate
    /\ rendered[2].source = "organic" /\ rendered[2].date = RawDate("day", 20)
    /\ rendered[3].source = "answer_box"
    /\ rendered[3].date = RawDate("day", CURRENT_DATE - 3)

\* --------------------------------------------- claims on concurrent runs

\* C25: two runs in one process share no mutable state: no run writes a
\* module-level variable, the tool registry is never modified, and a run
\* that has returned has the transcript and the result it has when it runs
\* alone with the same replies.
C25_NoSharedMutableState ==
    /\ [][openai_client' = openai_client]_vars
    /\ [][tool_registry' = tool_registry]_vars
    /\ [](\A r \in Runs :
            sessions[r].pc = "done" =>
                /\ sessions[r].messages = Alone(query, sessions[r].script).messages
                /\ sessions[r].result = Alone(query, sessions[r].script).result)

\* ------------------------------------------ claims on the evidence budget

\* The non-empty entries of the call, before they are sorted.
NonEmptyEntries == dropna(Renormalized(AppendedRows(sdata)))

\* The sort key of an entry: 0 without a date, else its day.
DateKey(r) == IF r.date = NoDate THEN 0 ELSE r.date.n

\* How many entries of a table are dated k or later.
CountFrom(rows, k) == Cardinality({i \in DOMAIN rows : DateKey(rows[i]) >= k})

Min(a, b) == IF a <= b THEN a ELSE b

\* C31: the rendered evidence block holds at most num_retrieved_evidences
\* entries, all of them non-empty entries of the call; when there are more
\* non-empty entries than that, the block holds the last ones of the date
\* order: for every day, the entries dated that day or later are kept before
\* any earlier or undated entry is, so the undated entries are dropped first.
C31_KeepsTheLastOfTheDateOrder ==
    Rendered =>
        /\ Len(rendered) <= sdata.num_retrieved_evidences
        /\ \A i \in DOMAIN rendered :
              \E j \in DOMAIN NonEmptyEntries : rendered[i] = NonEmptyEntries[j]
        /\ \A k \in 0..CURRENT_DATE :
              CountFrom(rendered, k) =
                  Min(sdata.num_retrieved_evidences, CountFrom(NonEmptyEntries, k))

\* Four non-empty entries, two of them undated, were cut to two: both dated
\* entries were kept and both undated ones dropped.
C31_Witness ==
    /\ Rendered
    /\ sdata.num_retrieved_evidences = 2
    /\ Len(NonEmptyEntries) = 4
    /\ CountFrom(NonEmptyEntries, 1) = 2
    /\ Len(rendered) = 2
    /\ \A i \in DOMAIN rendered : rendered[i].date # NoDate

\* ---------------------------------------- claims on the evidence turn

\* The instruction that ends an evidence turn.
InstructionOf(m) == m.content[Len(m.content)]

EvidenceTurns == {i \in DOMAIN messages : IsEvidenceTurn(messages[i])}

\* C32: all the evidence turns of a transcript end with the same provenance
\* instruction, whichever tool was called and whether the payload carried a
\* rendered prompt or was dumped as raw JSON.
C32_SameInstructionAfterEveryTool ==
    \A i, j \in EvidenceTurns :
        InstructionOf(messages[i]) = InstructionOf(messages[j])

\* ------------------------------------- claims on the transcript that is sent

\* The assistant turn at i is followed by one tool-result turn for each of
\* its requests, in the order of the requests.
RequestsAnswered(i) ==
    \A n \in DOMAIN messages[i].tool_calls :
        /\ i + n <= Len(messages)
        /\ IsToolResult(messages[i + n])
        /\ messages[i + n].tool_call_id = messages[i].tool_calls[n].id

\* C33: whenever a model call is made, every assistant turn of the
\* transcript that carries tool requests is followed at once by one
\* tool-result turn for each of its request ids.
C33_RequestsAnsweredWhenCalling ==
    pc = "llm" =>
        \A i \in AssistantIndices :
            messages[i].tool_calls # <<>> => RequestsAnswered(i)

\* ------------------------------------- claims on the final-synthesis turn

FinalSynthesisTurns == {i \in DOMAIN messages : IsFinalSynthesis(messages[i])}

\* The round with steps_left = 1 has passed its head.
FinalRoundStarted ==
    \/ step > max_steps /\ max_steps >= 1
    \/ step = max_steps /\ pc # "loop"

\* C34: a transcript holds at most one final-synthesis system turn; it holds
\* one exactly when the round with steps_left = 1 was started; no system
\* turn comes after it, and the only turn after it is one assistant turn,
\* the reply to the model call of the final round.
C34_OneFinalSynthesisTurn ==
    /\ Cardinality(FinalSynthesisTurns) <= 1
    /\ FinalSynthesisTurns # {} <=> FinalRoundStarted
    /\ \A i \in FinalSynthesisTurns :
          /\ Len(messages) <= i + 1
          /\ Len(messages) = i + 1 =>
                /\ IsAssistant(messages[i + 1])
                /\ calls # <<>>
                /\ calls[Len(calls)].steps_left = 1
                /\ calls[Len(calls)].last = messages[i]

\* The final round of a run of three got its turn after an evidence turn,
\* a reflection turn and a snapshot, and the assistant answered it.
C34_Witness ==
    /\ pc = "done"
    /\ max_steps = 3
    /\ \E i \in FinalSynthesisTurns :
          /\ Len(messages) = i + 1
          /\ \E e, s \in 1..(i - 1) :
                /\ IsEvidenceTurn(messages[e])
                /\ IsSnapshot(messages[s])
                /\ e < s

\* ------------------------------------------ claims on the empty extraction

\* C35: extract_direct_answer returns the empty string only for a text that
\* is empty or whitespace: a text with at least one non-empty line gives a
\* non-empty result.
C35_EmptyOnlyForEmptyText ==
    Returned /\ extracted = <<>> => NonEmptyLines(GivenLines) = <<>>

\* ------------------------------------------------- call_llm_api, called

\* The arguments of a call and the API key the environment holds.
Prompts == {<<"who", "holds", "office">>, <<"is", "it", "correct">>}
Models == {"gpt-4o", "gpt-5-mini"}
ApiArgs ==
    [prompt : Prompts, model : Models, chat_completions : BOOLEAN,
     api_key : {"sk-key", ABSENT}]

\* The client an earlier call of the module left, or the one this call makes.
ApiClient == "client"

\* The text of a response: message.content or text, None included.
ResponseTexts == {None, <<>>, <<"Paris">>}

RETRY_EXCEEDED == <<"[ERROR] rate limit retry exceeded">>

\* Variant of sleep_s with a constant pause.
sleep_s_constant(n) == 1

\* Lines 90 and 95: sleep_s = 1 + attempt
sleep_s(n) == 1 + n

run_vars == <<max_steps, query, messages, step, pc, result, exc, calls, dispatches>>
api_others == <<run_vars, batch, parts, extract_vars, calc_vars, format_vars,
                tool_registry, sessions, label_vars>>

InitApi ==
    /\ AgentIdle
    /\ BatchIdle
    /\ parts = NoParts
    /\ given_text = NotCalled
    /\ extracted = NotCalled
    /\ expression = NotCalled
    /\ calc_result = NotCalled
    /\ sdata = NotCalled
    /\ rendered = NotCalled
    /\ tool_registry = NotCalled
    /\ sessions = NotCalled
    /\ openai_client \in {NoClient, ApiClient}
    /\ api_args \in ApiArgs
    /\ api_pc = "enter"
    /\ response = NotCalled
    /\ LabelIdle

\* Lines 40-55: the lazy set-up of the module-level client.
ApiEnter ==
    /\ api_pc = "enter"
    /\ IF openai_client # NoClient
       THEN /\ api_pc' = "request"
            /\ UNCHANGED <<openai_client, last_error>>
       ELSE IF api_args.api_key = ABSENT
       THEN /\ api_pc' = "raised"
            /\ last_error' = NO_API_KEY
            /\ UNCHANGED openai_client
       ELSE /\ api_pc' = "request"
            /\ openai_client' = ApiClient
            /\ UNCHANGED last_error
    /\ UNCHANGED <<attempt, sleeps, api_args, response, api_others>>

\* Lines 58-88: a request of the loop succeeded, its text is returned.
ApiReturns ==
    /\ api_pc = "request"
    /\ attempt < MAX_RETRIES
    /\ \E text \in ResponseTexts : response' = OrEmpty(text)
    /\ api_pc' = "returned"
    /\ UNCHANGED <<attempt, sleeps, last_error, openai_client, api_args, api_others>>

\* Lines 89-98: a request failed with RateLimitError or APIError: sleep and
\* go on with the loop.
ApiTransient ==
    /\ api_pc = "request"
    /\ attempt < MAX_RETRIES
    /\ \E e \in RequestErrors :
         /\ Retried(e)
         /\ last_error' = e
    /\ sleeps' = Append(sleeps, sleep_s(attempt))
    /\ attempt' = attempt + 1
    /\ UNCHANGED <<api_pc, response, openai_client, api_args, api_others>>

\* Lines 99-101: any other exception leaves the call.
ApiRaises ==
    /\ api_pc = "request"
    /\ attempt < MAX_RETRIES
    /\ \E e \in RequestErrors :
         /\ ~Retried(e)
         /\ last_error' = e
    /\ api_pc' = "raised"
    /\ UNCHANGED <<attempt, sleeps, response, openai_client, api_args, api_others>>

\* Line 103: the loop ran out.
ApiGivesUp ==
    /\ api_pc = "request"
    /\ attempt = MAX_RETRIES
    /\ response' = RETRY_EXCEEDED
    /\ api_pc' = "returned"
    /\ UNCHANGED <<attempt, sleeps, last_error, openai_client, api_args, api_others>>

NextApi ==
    \/ ApiEnter
    \/ ApiReturns
    \/ ApiTransient
    \/ ApiRaises
    \/ ApiGivesUp

SpecApi == InitApi /\ [][NextApi]_vars

\* ---------------------------------------------- claims on call_llm_api

GaveUp == api_pc = "returned" /\ response = RETRY_EXCEEDED

\* The sleep after the k-th failed attempt of the call is k seconds.
LinearBackoff == \A k \in DOMAIN sleeps : sleeps[k] = k

AtAnsweredRow == AtRow /\ df[row_i].full # NA /\ Strip(df[row_i].full) # <<>>

\* C37: a row that has a non-empty recorded full answer never triggers a
\* call of the agent: with a direct answer the row is left as it is,
\* without one only its direct answer is set, to what
\* extract_direct_answer gives for the full answer; the full answer stays,
\* also when it is an "[ERROR] ..." sentinel; no other row changes.
C37_AnsweredRowsAreNotRerun ==
    [][AtAnsweredRow =>
          /\ run_calls' = run_calls
          /\ UNCHANGED agent
          /\ \A k \in DOMAIN df : k # row_i => df'[k] = df[k]
          /\ df'[row_i].full = df[row_i].full
          /\ df'[row_i].question = df[row_i].question
          /\ IF df[row_i].direct # NA /\ Strip(df[row_i].direct) # <<>>
             THEN df'[row_i].direct = df[row_i].direct
             ELSE df'[row_i].direct = extract_direct_answer(df[row_i].full)]_vars

\* The table was saved: its first row, an error sentinel without direct
\* answer, got its direct answer from the sentinel and was not run; its
\* second row had no answer and was run.
C37_Witness ==
    /\ bpc = "saved"
    /\ Len(df) = 2
    /\ df[1].full = ErrorText("RuntimeError")
    /\ df[1].direct = ErrorText("RuntimeError")
    /\ Len(run_calls) = 1
    /\ run_calls[1].i = 2

\* -------------------------------------------- parse_relaxed_label, called

MaxPieces == 4

\* A grader output is a sequence of pieces of text; "incorrect" is the
\* piece "in" followed by the piece "correct", so that a search for
\* "correct" finds it inside "incorrect" as a substring search does.
Pieces == {"evaluation:", "EVALUATION:", "in", "correct", "Correct", WS, "answer"}

GraderTexts == {None} \cup UNION {[1..n -> Pieces] : n \in 0..MaxPieces}

EVALUATION == <<"evaluation:">>
CORRECT == <<"correct">>
INCORRECT == <<"in", "correct">>

\* str.lower()
Lower(t) ==
    [i \in DOMAIN t |->
        CASE t[i] = "EVALUATION:" -> "evaluation:"
          [] t[i] = "Correct" -> "correct"
          [] OTHER -> t[i]]

\* w occurs in t at position i; `w in t`; t.startswith(w)
OccursAt(t, w, i) == i + Len(w) - 1 <= Len(t) /\ SubSeq(t, i, i + Len(w) - 1) = w
Contains(t, w) == \E i \in 1..Len(t) : OccursAt(t, w, i)
StartsWith(t, w) == OccursAt(t, w, 1)

\* t.split(w, 1)[1]: what follows the first occurrence of w.
AfterFirst(t, w) ==
    LET k == CHOOSE i \in 1..Len(t) :
                 OccursAt(t, w, i) /\ \A j \in 1..(i - 1) : ~OccursAt(t, w, j)
    IN  SubSeq(t, k + Len(w), Len(t))

\* parse_relaxed_label
parse_relaxed_label(text) ==
    LET t == Lower(OrEmpty(text))
        after == IF Contains(t, EVALUATION) THEN Strip(AfterFirst(t, EVALUATION)) ELSE <<>>
    IN  IF Contains(t, EVALUATION) /\ StartsWith(after, CORRECT) THEN "correct"
        ELSE IF Contains(t, EVALUATION) /\ StartsWith(after, INCORRECT) THEN "incorrect"
        ELSE IF Contains(t, CORRECT) /\ ~Contains(t, INCORRECT) THEN "correct"
        ELSE IF Contains(t, INCORRECT) /\ ~Contains(t, CORRECT) THEN "incorrect"
        ELSE "unknown"

\* parse_relaxed_label has not returned.
NotLabelled == "<not called>"

InitLabel ==
    /\ AgentIdle
    /\ BatchIdle
    /\ parts = NoParts
    /\ given_text = NotCalled
    /\ extracted = NotCalled
    /\ expression = NotCalled
    /\ calc_result = NotCalled
    /\ sdata = NotCalled
    /\ rendered = NotCalled
    /\ openai_client = NotCalled
    /\ tool_registry = NotCalled
    /\ sessions = NotCalled
    /\ ApiIdle
    /\ grader_text \in GraderTexts
    /\ label = NotLabelled

\* One call of parse_relaxed_label.
LabelCall ==
    /\ label = NotLabelled
    /\ label' = parse_relaxed_label(grader_text)
    /\ UNCHANGED <<agent, batch, parts, extract_vars, calc_vars, format_vars, shared_vars,
                   api_vars, grader_text>>

NextLabel == LabelCall

SpecLabel == InitLabel /\ [][NextLabel]_vars

\* ------------------------------------------ claims on the grader's label

Labelled == label # NotLabelled

GraderLower == Lower(OrEmpty(grader_text))

\* C38: parse_relaxed_label returns "incorrect" for a grader output that
\* contains "incorrect" and has no "evaluation:" prefix, "correct" for an
\* output that contains "correct" but not "incorrect", and "unknown" only
\* for an output in which neither word is found.
C38_LabelFromTheWords ==
    Labelled =>
        /\ Contains(GraderLower, INCORRECT) /\ ~Contains(GraderLower, EVALUATION)
              => label = "incorrect"
        /\ Contains(GraderLower, CORRECT) /\ ~Contains(GraderLower, INCORRECT)
              => label = "correct"
        /\ label = "unknown"
              => ~Contains(GraderLower, CORRECT) /\ ~Contains(GraderLower, INCORRECT)
====
